---- MODULE Spec2Model ----
(***************************************************************************)
(* Model of the LSP client session (class LSPClient) of                    *)
(*   src/skills/code-quality/scripts/analyze_with_lsp.ts  (impl "engine")  *)
(*   src/language-server-client/scripts/lsp_client.ts     (impl "library") *)
(* The two classes share handleData, handleMessage and the id allocation   *)
(* of sendRequest; they differ in the request timer and in shutdown.       *)
(*                                                                         *)
(* Text is a sequence of characters; a character is an atom (a string).    *)
(* ASCII characters are one UTF-8 byte, "e_acute" is two (C3 A9), "euro"   *)
(* is three (E2 82 AC).  "FFFD" is the replacement character that          *)
(* Buffer.toString() produces for a byte sequence that is not valid UTF-8. *)
(***************************************************************************)
EXTENDS Integers, Sequences, FiniteSets, TLC

\* ------------------------------------------------------------------------
\* Bounds
\* ------------------------------------------------------------------------
MaxChunks == 2

MaxId == 3

MaxServerMsgs == 2

MaxDocOps == 2

\* ------------------------------------------------------------------------
\* Characters, bytes and the UTF-8 conversions
\* ------------------------------------------------------------------------
Digits == <<"0", "1", "2", "3", "4", "5", "6", "7", "8", "9">>

DigitChars == {Digits[i] : i \in 1..10}

DigitVal(c) == (CHOOSE i \in 1..10 : Digits[i] = c) - 1

Undefined == <<"undefined">>

NoId == -1

\* String.prototype.toLowerCase on the letters the header regex mentions.
ToLower(c) == IF c = "C" THEN "c" ELSE IF c = "L" THEN "l" ELSE c

\* The UTF-8 encoding of one character (stdin.write of a string, Buffer.byteLength).
Utf8Bytes(c) ==
  IF c = "e_acute" THEN <<"C3", "A9">>
  ELSE IF c = "euro" THEN <<"E2", "82", "AC">>
  ELSE IF c = "FFFD" THEN <<"EF", "BF", "BD">>
  ELSE <<c>>

RECURSIVE Flatten(_)
\* Concatenation of a sequence of sequences (halving keeps the nesting shallow).
Flatten(parts) ==
  IF Len(parts) = 0 THEN <<>>
  ELSE IF Len(parts) = 1 THEN parts[1]
  ELSE LET h == Len(parts) \div 2
       IN  Flatten(SubSeq(parts, 1, h)) \o Flatten(SubSeq(parts, h + 1, Len(parts)))

Utf8Encode(text) == Flatten([i \in 1..Len(text) |-> Utf8Bytes(text[i])])

\* Buffer.byteLength(text, 'utf8')
ByteLength(text) == Len(Utf8Encode(text))

\* Buffer.prototype.toString(): UTF-8 decoding of ONE chunk.  A complete
\* sequence becomes its character; a truncated or stray sequence becomes one
\* U+FFFD per maximal invalid part.  DecodeAt(bytes, i) is what the byte at
\* position i contributes.
DecodeAt(bytes, i) ==
  LET n == Len(bytes)
      b == bytes[i]
      At(k) == IF k >= 1 /\ k <= n THEN bytes[k] ELSE "none"
  IN  IF b = "C3" THEN (IF At(i + 1) = "A9" THEN <<"e_acute">> ELSE <<"FFFD">>)
      ELSE IF b = "A9" THEN (IF At(i - 1) = "C3" THEN <<>> ELSE <<"FFFD">>)
      ELSE IF b = "E2"
        THEN (IF At(i + 1) = "82" /\ At(i + 2) = "AC" THEN <<"euro">> ELSE <<"FFFD">>)
      ELSE IF b = "82" THEN (IF At(i - 1) = "E2" THEN <<>> ELSE <<"FFFD">>)
      ELSE IF b = "AC"
        THEN (IF At(i - 1) = "82" /\ At(i - 2) = "E2" THEN <<>> ELSE <<"FFFD">>)
      ELSE IF b = "EF"
        THEN (IF At(i + 1) = "BF" /\ At(i + 2) = "BD" THEN <<"FFFD">> ELSE <<"FFFD">>)
      ELSE IF b = "BF" THEN (IF At(i - 1) = "EF" THEN <<>> ELSE <<"FFFD">>)
      ELSE IF b = "BD"
        THEN (IF At(i - 1) = "BF" /\ At(i - 2) = "EF" THEN <<>> ELSE <<"FFFD">>)
      ELSE <<b>>

MultiByteParts == {"C3", "A9", "E2", "82", "AC", "EF", "BF", "BD"}

\* A chunk of ASCII bytes decodes to the same characters.
Utf8Decode(bytes) ==
  IF \A i \in 1..Len(bytes) : bytes[i] \notin MultiByteParts THEN bytes
  ELSE Flatten([i \in 1..Len(bytes) |-> DecodeAt(bytes, i)])

\* ------------------------------------------------------------------------
\* JavaScript string helpers (0-based, as in the source)
\* ------------------------------------------------------------------------
\* String.prototype.substring(a, b): characters a .. b-1, clamped.
Substring(s, a, b) ==
  LET lo == IF a < 0 THEN 0 ELSE IF a > Len(s) THEN Len(s) ELSE a
      hi == IF b < 0 THEN 0 ELSE IF b > Len(s) THEN Len(s) ELSE b
  IN  IF lo >= hi THEN <<>> ELSE SubSeq(s, lo + 1, hi)

\* s.startsWith(pat, i) for a 0-based position i.
MatchesAt(s, pat, i) ==
  /\ i + Len(pat) <= Len(s)
  /\ \A j \in 1..Len(pat) : s[i + j] = pat[j]

\* String.prototype.indexOf(pat): first 0-based position, -1 when absent.
IndexOf(s, pat) ==
  LET hits == {i \in 0..(Len(s) - Len(pat)) : MatchesAt(s, pat, i)}
  IN  IF hits = {} THEN -1 ELSE CHOOSE i \in hits : \A j \in hits : i <= j

RECURSIVE ToDecimal(_)
\* Number to decimal text (template literal `${n}`).
ToDecimal(n) ==
  IF n < 10 THEN <<Digits[n + 1]>> ELSE ToDecimal(n \div 10) \o <<Digits[(n % 10) + 1]>>

RECURSIVE ParseInt(_)
\* parseInt(text, 10) on a non-empty run of decimal digits.
ParseInt(ds) ==
  IF Len(ds) = 1 THEN DigitVal(ds[1])
  ELSE 10 * ParseInt(SubSeq(ds, 1, Len(ds) - 1)) + DigitVal(ds[Len(ds)])

HeaderName ==
  <<"C", "o", "n", "t", "e", "n", "t", "-", "L", "e", "n", "g", "t", "h", ":", "SP">>

HeaderEndMark == <<"CR", "LF", "CR", "LF">>

LowerText(s) == [i \in 1..Len(s) |-> ToLower(s[i])]

\* The regex matches at 0-based position i: the header name in any letter
\* case, followed by at least one digit.
HeaderMatchesAt(headers, i) ==
  LET name == LowerText(HeaderName)
      k == Len(name)
  IN  /\ i + k + 1 <= Len(headers)
      /\ \A j \in 1..k : ToLower(headers[i + j]) = name[j]
      /\ headers[i + k + 1] \in DigitChars

\* headers.match(/Content-Length: (\d+)/i): the captured digit run of the
\* leftmost match, or <<>> when there is no match.
ContentLengthMatch(headers) ==
  LET k == Len(HeaderName)
      hits == {i \in 0..(Len(headers) - k - 1) : HeaderMatchesAt(headers, i)}
  IN  IF hits = {} THEN <<>>
      ELSE LET i == CHOOSE h \in hits : \A j \in hits : h <= j
               first == i + k + 1
               last  == CHOOSE e \in first..Len(headers) :
                          /\ \A p \in first..e : headers[p] \in DigitChars
                          /\ (e = Len(headers) \/ headers[e + 1] \notin DigitChars)
           IN  SubSeq(headers, first, last)

\* ------------------------------------------------------------------------
\* Messages and their JSON text
\* ------------------------------------------------------------------------
\* A message is [id, method, params, result, error]; an absent field is NoId
\* or Undefined.  JSON text is modelled as "{" fields "}" with one tag
\* character per field: i<digit> for id, then m<text> (method) with an
\* optional p<text> (params), e<digit><text> (error: code and message) or
\* r<text> (result).
Message(id, method, result, error) ==
  [id |-> id, method |-> method, params |-> Undefined, result |-> result, error |-> error]

Response(id, result) == Message(id, Undefined, result, Undefined)

\* An error payload {code, message}: the code digit followed by the message.
ErrorCode(error) == Head(error)

ErrorMessage(error) == Tail(error)

ErrorResponse(id, text) == Message(id, Undefined, Undefined, text)

Request(id, method) == Message(id, method, Undefined, Undefined)

Notification(method) == Message(NoId, method, Undefined, Undefined)

\* The params member of a message the client builds; {} is the empty text.
NoParams == <<>>

WithParams(m, params) == [m EXCEPT !.params = params]

\* JSON.stringify(message)
Stringify(m) ==
  <<"{">>
  \o (IF m.id = NoId THEN <<>> ELSE <<"i", Digits[m.id + 1]>>)
  \o (IF m.method # Undefined
        THEN <<"m">> \o m.method
             \o (IF m.params # Undefined THEN <<"p">> \o m.params ELSE <<>>)
      ELSE IF m.error # Undefined THEN <<"e">> \o m.error
      ELSE <<"r">> \o m.result)
  \o <<"}">>

ParseError ==
  [id |-> NoId, method |-> <<"SyntaxError">>, params |-> Undefined,
   result |-> Undefined, error |-> Undefined]

\* The method and params members of the text that follows the m tag.
MethodAndParams(m, rest) ==
  LET marks == {k \in 1..Len(rest) : rest[k] = "p"} IN
  IF marks = {} THEN [m EXCEPT !.method = rest]
  ELSE LET k == CHOOSE x \in marks : \A y \in marks : x <= y
       IN  [m EXCEPT !.method = SubSeq(rest, 1, k - 1),
                     !.params = SubSeq(rest, k + 1, Len(rest))]

\* JSON.parse(text); ParseError stands for the thrown SyntaxError.
Parse(text) ==
  LET n == Len(text) IN
  IF n < 3 \/ text[1] # "{" \/ text[n] # "}" THEN ParseError
  ELSE LET inner == SubSeq(text, 2, n - 1)
           k == Len(inner)
       IN  IF \E p \in 1..k : inner[p] \in {"{", "}"} THEN ParseError
           ELSE IF inner[1] = "i"
             THEN IF k < 3 \/ inner[2] \notin DigitChars \/ inner[3] \notin {"m", "e", "r"}
                    THEN ParseError
                    ELSE LET id == DigitVal(inner[2])
                             rest == SubSeq(inner, 4, k)
                         IN  IF inner[3] = "m" THEN MethodAndParams(Request(id, <<>>), rest)
                             ELSE IF inner[3] = "e" THEN ErrorResponse(id, rest)
                             ELSE Response(id, rest)
           ELSE IF inner[1] = "m" THEN MethodAndParams(Notification(<<>>), SubSeq(inner, 2, k))
           ELSE ParseError

\* The while loop of handleData on the accumulated buffer: the extracted
\* message bodies, in order, the buffer that is left, and whether the loop
\* ended by discarding the buffer.
RECURSIVE FrameLoop(_, _)
FrameLoop(buf, bodies) ==
  LET headerEnd == IndexOf(buf, HeaderEndMark) IN
  IF headerEnd = -1 THEN [buffer |-> buf, bodies |-> bodies, discarded |-> FALSE]
  ELSE LET headers == Substring(buf, 0, headerEnd)
           match == ContentLengthMatch(headers)
       IN  IF match = <<>> THEN [buffer |-> <<>>, bodies |-> bodies, discarded |-> TRUE]
           ELSE LET contentLength == ParseInt(match)
                    messageStart == headerEnd + 4
                    messageEnd == messageStart + contentLength
                IN  IF Len(buf) < messageEnd
                      THEN [buffer |-> buf, bodies |-> bodies, discarded |-> FALSE]
                    ELSE FrameLoop(Substring(buf, messageEnd, Len(buf)),
                                   Append(bodies, Substring(buf, messageStart, messageEnd)))


\* ------------------------------------------------------------------------
\* Session state (fields of LSPClient, the child process, the two pipes)
\* ------------------------------------------------------------------------
VARIABLES
  impl,             \* "engine" (analyze_with_lsp.ts) or "library" (lsp_client.ts)
  process,          \* this.process: "null" or "child"
  child,            \* the spawned process: "none", "running", "killed", "exited"
  exitEmitted,      \* the 'exit' listener has run (this.emit('exit', code))
  initialized,      \* this.initialized
  messageBuffer,    \* this.messageBuffer
  nextRequestId,    \* this.nextRequestId
  pendingRequests,  \* keys of this.pendingRequests
  timers,           \* ids whose setTimeout is armed
  outcome,          \* the promise returned by sendRequest, per id
  resolvedBy,       \* the inbound message that settled the promise, per id
  stdin,            \* messages written to the child's stdin, in order
  written,          \* the bytes of each stdin.write, in order
  wire,             \* chunks written by the child to stdout, not yet read
  serverSent,       \* messages the child has written, in order
  dispatched,       \* messages passed to handleMessage, in order
  notifLog,         \* notifications emitted to the 'notification' listeners
  handlers,         \* the 'notification' listeners, in registration order
  settledAt,        \* per id: notifications emitted when its response settled it
  resumedAt,        \* per id: notifications emitted when the awaiting caller resumed
  uncaught,         \* an exception has left handleData
  discards,         \* times handleData discarded its buffer (no length header)
  returned,         \* what the query facade returned to its caller, per id
  startPc,          \* position of start(): "idle", "awaitInit", "ready", "failed"
  shutdownPc,       \* position of shutdown(): "idle", "await", "done", "failed"
  shutdownId,       \* id of the shutdown request, 0 before it is sent
  docOps,           \* openDocument / closeDocument calls made so far
  graph,            \* buildCallGraph: its position, stack of traversals and visited keys
  run,              \* analyzeProject: its position, the file it is at, the id it awaits
  codebase,         \* analyzeCodebase: its position, file, awaited id, listener index
  project,          \* what the detectors work on: allSymbols, fileContents, query answers
  analysisResult    \* the AnalysisResult the detectors fill

vars == <<impl, process, child, exitEmitted, initialized, messageBuffer,
          nextRequestId, pendingRequests, timers, outcome, resolvedBy, stdin,
          written, wire, serverSent, dispatched, notifLog, handlers,
          settledAt, resumedAt, uncaught, discards, returned, startPc, shutdownPc, shutdownId, docOps, graph,
          run, codebase, project, analysisResult>>

\* The state of the helper operations and of the detectors.
helperVars == <<run, codebase, project, analysisResult>>

\* The ids a session of the model issues: callers issue the ids up to MaxId,
\* shutdown() and the run of analyzeProject the ones after them.
Ids == 1..(MaxId + 2)

Impls == {"engine", "library"}

\* Method names, one character each.
Initialize == <<"I">>

Initialized == <<"N">>

ShutdownMethod == <<"S">>

ExitMethod == <<"X">>

References == <<"R">>

Hover == <<"H">>

\* textDocument/documentSymbol, sent by the facade method documentSymbols.
DocumentSymbols == <<"Y">>

\* textDocument/completion, sent by the facade method completion of the
\* library client.
Completion == <<"L">>

DidOpen == <<"O">>

DidClose == <<"C">>

QueryMethods == {References}

PublishDiagnostics == <<"D">>

\* Document URIs: a plain one and one with a character outside ASCII
\* (pathToUri does not escape the path).
PlainUri == <<"u">>

AccentUri == <<"e_acute">>

OtherUri == <<"v">>

Uris == {PlainUri, OtherUri, AccentUri}

Unissued == [state |-> "unissued", value |-> Undefined]

Pending == [state |-> "pending", value |-> Undefined]

NotCalled == [state |-> "none", value |-> Undefined]

Waiting == [state |-> "waiting", value |-> Undefined]

\* [] and null as the facade returns them.
EmptyList == <<"[", "]">>

Null == <<"null">>

NoMessage == Message(NoId, Undefined, Undefined, Undefined)

\* The id of the initialize request: start() issues the first request.
InitId == 1

\* What a 'notification' listener does when called.
HandlerKinds == {"returns", "throws"}

\* Not yet settled by a response / not yet resumed.
NotYet == -1

\* ------------------------------------------------------------------------
\* handleMessage and the dispatch part of handleData
\* ------------------------------------------------------------------------
\* The part of the session that handleMessage reads and writes; thrown tells
\* that an exception is propagating.
SessionPart ==
  [pending |-> pendingRequests, timers |-> timers, outcome |-> outcome,
   resolvedBy |-> resolvedBy, dispatched |-> dispatched, notifLog |-> notifLog,
   exited |-> exitEmitted, handlers |-> handlers, settledAt |-> settledAt,
   thrown |-> FALSE]

\* Correlation by arrival order instead of by id: the oldest pending request.
LookupKeyOldest(st, message) ==
  IF st.pending = {} THEN message.id
  ELSE CHOOSE i \in st.pending : \A j \in st.pending : i <= j

\* The key under which handleMessage looks the message up:
\* this.pendingRequests.get(message.id)
LookupKey(st, message) == message.id

\* A completion that does not look at the pending map.
HasPendingAlways(st, key) == key \in DOMAIN st.outcome

\* const pending = this.pendingRequests.get(...); if (pending) ...
HasPending(st, key) == key \in st.pending

\* A response that leaves the timer of its request armed.
ClearTimeoutNever(armed, key) == armed

\* clearTimeout(pending.timeout)
ClearTimeout(armed, key) == armed \ {key}

\* EventEmitter.emit('notification', method, params): the listeners are
\* called in registration order; an exception thrown by one leaves emit at
\* once, so the listeners registered after it are not called.  The entry
\* logged tells how many listeners were called.
Emit(st, method) ==
  LET n == Len(st.handlers)
      throwing == {h \in 1..n : st.handlers[h] = "throws"}
      last == IF throwing = {} THEN n
              ELSE CHOOSE h \in throwing : \A j \in throwing : h <= j
  IN  [st EXCEPT !.notifLog = Append(@, [method |-> method, afterExit |-> st.exited,
                                         called |-> last]),
                 !.thrown = (throwing # {})]

\* new Error(message.error.message): the rejection carries the message text.
RejectionOf(error) == ErrorMessage(error)

\* handleMessage(message)
HandleMessage(st, message) ==
  LET logged == [st EXCEPT !.dispatched = Append(@, message)] IN
  IF message.id # NoId
    THEN LET key == LookupKey(st, message) IN
         IF HasPending(st, key)
           THEN [logged EXCEPT
                   !.timers = ClearTimeout(@, key),
                   !.pending = @ \ {key},
                   !.outcome[key] =
                      IF message.error # Undefined
                        THEN [state |-> "remoteError", value |-> RejectionOf(message.error)]
                        ELSE [state |-> "result", value |-> message.result],
                   !.resolvedBy[key] = message,
                   !.settledAt[key] = Len(st.notifLog)]
           ELSE logged
  ELSE IF message.method # Undefined /\ message.method # <<>>
    THEN Emit(logged, message.method)
  ELSE logged

\* One body without the try: a SyntaxError of JSON.parse or an exception of a
\* listener keeps propagating.
DispatchOneNoCatch(st, body) ==
  LET message == Parse(body)
  IN  IF message = ParseError THEN [st EXCEPT !.thrown = TRUE]
      ELSE HandleMessage(st, message)

\* try { this.handleMessage(JSON.parse(messageContent)) } catch {}
DispatchOne(st, body) ==
  LET message == Parse(body)
      after == IF message = ParseError THEN st ELSE HandleMessage(st, message)
  IN  [after EXCEPT !.thrown = FALSE]

\* The bodies extracted by the while loop, dispatched in order; an exception
\* that is propagating ends the loop.
RECURSIVE DispatchAll(_, _)
DispatchAll(st, bodies) ==
  IF bodies = <<>> \/ st.thrown THEN st
  ELSE DispatchAll(DispatchOne(st, Head(bodies)), Tail(bodies))

\* The facade calls whose awaited request has settled.
QueryDue == {i \in Ids : returned[i].state = "waiting" /\ outcome[i].state # "pending"}

\* buildCallGraph waits for the request with this id (0: for none).
GraphAwaits == IF graph.pc \in {"hover", "references"} THEN graph.id ELSE 0

\* analyzeProject can resume: the promise it awaits (start(), a facade call,
\* shutdown()) has settled.
RunDue ==
  \/ run.pc = "start" /\ startPc \in {"ready", "failed"}
  \/ run.pc \in {"outline", "references"} /\ returned[run.id].state = "returned"
  \/ run.pc = "shutdown" /\ shutdownPc = "done"

\* analyzeCodebase or getCompletions can resume: the facade call it awaits
\* has returned or thrown.
CodebaseDue ==
  codebase.pc \in {"outline", "completing"}
    /\ returned[codebase.id].state \in {"returned", "thrown"}

\* A continuation of an awaited promise is due: it runs before any other event.
ContinuationDue ==
  \/ startPc = "awaitInit" /\ outcome[InitId].state # "pending"
  \/ shutdownPc = "await" /\ outcome[shutdownId].state # "pending"
  \/ QueryDue # {}
  \/ GraphAwaits # 0 /\ outcome[GraphAwaits].state # "pending"
  \/ RunDue
  \/ CodebaseDue

\* ------------------------------------------------------------------------
\* Initial state: after the constructor
\* ------------------------------------------------------------------------
NoGraph == [pc |-> "idle", id |-> 0, stack |-> <<>>, visited |-> {}]

\* No analyzeProject and no analyzeCodebase call is in progress, and no
\* detector input is loaded.
NoRun ==
  [pc |-> "none", file |-> 0, id |-> 0, files |-> 0, analysis |-> "none",
   perFile |-> 0, unreadable |-> 0, symbols |-> 0, answers |-> <<>>, findings |-> <<>>]

\* analysis.diagnostics has no entry for the URI.
NotRecorded == -1

\* listener is the position of the listener analyzeCodebase registers, 0
\* before; diagnostics and errorCount are the fields of the analysis object.
NoCodebase ==
  [pc |-> "none", file |-> 0, id |-> 0, listener |-> 0,
   diagnostics |-> [u \in Uris |-> NotRecorded], errorCount |-> 0]

NoProject == [kind |-> "none"]

NoResult == [phase |-> 0]

NoHelpers ==
  /\ run = NoRun
  /\ codebase = NoCodebase
  /\ project = NoProject
  /\ analysisResult = NoResult

Constructed ==
  /\ process = "null"
  /\ child = "none"
  /\ exitEmitted = FALSE
  /\ initialized = FALSE
  /\ messageBuffer = <<>>
  /\ nextRequestId = 1
  /\ pendingRequests = {}
  /\ timers = {}
  /\ outcome = [i \in Ids |-> Unissued]
  /\ resolvedBy = [i \in Ids |-> NoMessage]
  /\ stdin = <<>>
  /\ written = <<>>
  /\ dispatched = <<>>
  /\ notifLog = <<>>
  /\ settledAt = [i \in Ids |-> NotYet]
  /\ resumedAt = [i \in Ids |-> NotYet]
  /\ uncaught = FALSE
  /\ discards = 0
  /\ returned = [i \in Ids |-> NotCalled]
  /\ startPc = "idle"
  /\ shutdownPc = "idle"
  /\ shutdownId = 0
  /\ docOps = <<>>
  /\ graph = NoGraph

\* One listener that returns, as the one analyzeProject registers.
Init ==
  /\ impl \in Impls
  /\ Constructed
  /\ NoHelpers
  /\ handlers = <<"returns">>
  /\ wire = <<>>
  /\ serverSent = <<>>

\* ------------------------------------------------------------------------
\* Actions
\* ------------------------------------------------------------------------
\* The header with the character count of the body in place of its byte count.
FrameCharLength(content) ==
  HeaderName \o ToDecimal(Len(content)) \o HeaderEndMark \o content

\* The text written to stdin by sendRequest / sendNotification:
\* `Content-Length: ${Buffer.byteLength(content, 'utf8')}\r\n\r\n` + content
Frame(content) ==
  HeaderName \o ToDecimal(ByteLength(content)) \o HeaderEndMark \o content

\* The bytes that reach the pipe for one message.
Encode(m) == Utf8Encode(Frame(Stringify(m)))

\* Every message the client can write, with its bytes.
AllClientMessages ==
  {WithParams(Request(i, method), params) :
     i \in Ids, method \in {Initialize, ShutdownMethod, References, Hover, DocumentSymbols,
                             Completion},
     params \in {NoParams} \cup Uris}
    \cup {WithParams(Notification(method), params) :
             method \in {Initialized, ExitMethod, DidOpen, DidClose},
             params \in {NoParams} \cup Uris}

EncodedClientMessage == [m \in AllClientMessages |-> Encode(m)]

\* this.process.stdin.write(header + content)
Write(message) ==
  /\ stdin' = Append(stdin, message)
  /\ written' = Append(written, EncodedClientMessage[message])

\* sendRequest that forgets to advance the counter.
SendRequestStuck(method, params) ==
  /\ nextRequestId' = nextRequestId
  /\ Write(WithParams(Request(nextRequestId, method), params))
  /\ pendingRequests' = pendingRequests \cup {nextRequestId}
  /\ timers' = IF impl = "engine" THEN timers \cup {nextRequestId} ELSE timers
  /\ outcome' = [outcome EXCEPT ![nextRequestId] = Pending]

\* The body of sendRequest once the process check has passed: allocate the id,
\* write the frame, register the pending entry and (engine) arm the timer.
SendRequest(method, params) ==
  /\ nextRequestId' = nextRequestId + 1
  /\ Write(WithParams(Request(nextRequestId, method), params))
  /\ pendingRequests' = pendingRequests \cup {nextRequestId}
  /\ timers' = IF impl = "engine" THEN timers \cup {nextRequestId} ELSE timers
  /\ outcome' = [outcome EXCEPT ![nextRequestId] = Pending]

\* The body of sendNotification once the process check has passed.
SendNotification(method, params) == Write(WithParams(Notification(method), params))

\* The caller that awaits request id resumes.  When a response settled the
\* request, the number of notifications emitted so far is recorded.
Resume(id) ==
  /\ resumedAt' = [resumedAt EXCEPT ![id] =
                     IF settledAt[id] = NotYet THEN NotYet ELSE Len(notifLog)]
  /\ UNCHANGED settledAt

\* start(): spawn the child, attach the listeners, call initialize().
Start ==
  /\ startPc = "idle"
  /\ ~ContinuationDue
  /\ process' = "child"
  /\ child' = "running"
  /\ SendRequest(Initialize, NoParams)
  /\ startPc' = "awaitInit"
  /\ UNCHANGED helperVars
  /\ UNCHANGED <<impl, exitEmitted, initialized, messageBuffer, resolvedBy, wire,
                 serverSent, dispatched, notifLog, handlers, settledAt, resumedAt, uncaught, discards,
                 returned, shutdownPc, shutdownId, docOps, graph>>

\* initialize() after `await sendRequest('initialize')`, then the .then/.catch of start().
StartContinue ==
  /\ startPc = "awaitInit"
  /\ outcome[InitId].state # "pending"
  /\ IF outcome[InitId].state = "result" /\ process = "child"
       THEN /\ SendNotification(Initialized, NoParams)
            /\ initialized' = TRUE
            /\ startPc' = "ready"
       ELSE /\ startPc' = "failed"
            /\ UNCHANGED <<stdin, written, initialized>>
  /\ Resume(InitId)
  /\ UNCHANGED helperVars
  /\ UNCHANGED <<impl, process, child, exitEmitted, messageBuffer, nextRequestId,
                 pendingRequests, timers, outcome, resolvedBy, wire, serverSent,
                 dispatched, notifLog, handlers, uncaught, discards, returned, shutdownPc,
                 shutdownId, docOps, graph>>

\* A caller invokes findReferences / hover of the facade: sendRequest with
\* the process check.
Query(method, uri) ==
  /\ ~ContinuationDue
  /\ process = "child"
  /\ nextRequestId <= MaxId
  /\ SendRequest(method, uri)
  /\ returned' = [returned EXCEPT ![nextRequestId] = Waiting]
  /\ UNCHANGED helperVars
  /\ UNCHANGED <<impl, process, child, exitEmitted, initialized, messageBuffer,
                 resolvedBy, wire, serverSent, dispatched, notifLog, handlers,
                 settledAt, resumedAt, uncaught, discards, startPc, shutdownPc, shutdownId, docOps, graph>>

\* The method of the request that was written with this id.
MethodOf(id) ==
  LET k == CHOOSE j \in 1..Len(stdin) : stdin[j].id = id IN stdin[k].method

\* What the facade method hands to its caller once the request has settled.
\* engine: try { return await sendRequest(...) || [] } catch { return [] }
\*         (hover: the result as it is, null in the catch)
\* library: return this.sendRequest(...), so a rejection is the caller's.
FacadeReturn(method, settled) ==
  IF settled.state = "result"
    THEN [state |-> "returned", value |-> settled.value]
  ELSE IF impl = "engine"
    THEN [state |-> "returned", value |-> IF method = Hover THEN Null ELSE EmptyList]
  ELSE [state |-> "thrown", value |-> settled.value]

\* The facade method resumes after its await.
QueryContinue(id) ==
  /\ id \in QueryDue
  /\ returned' = [returned EXCEPT ![id] = FacadeReturn(MethodOf(id), outcome[id])]
  /\ Resume(id)
  /\ UNCHANGED helperVars
  /\ UNCHANGED <<impl, process, child, exitEmitted, initialized, messageBuffer,
                 nextRequestId, pendingRequests, timers, outcome, resolvedBy,
                 stdin, written, wire, serverSent, dispatched, notifLog, handlers,
                 uncaught, discards, startPc, shutdownPc, shutdownId, docOps, graph>>

\* A timer callback that empties the pending map.
TimerFireClearing(id) ==
  /\ ~ContinuationDue
  /\ id \in timers
  /\ timers' = {}
  /\ pendingRequests' = {}
  /\ outcome' = [outcome EXCEPT ![id] =
                   IF @.state = "pending" THEN [state |-> "timeout", value |-> Undefined] ELSE @]
  /\ UNCHANGED helperVars
  /\ UNCHANGED <<impl, process, child, exitEmitted, initialized, messageBuffer,
                 nextRequestId, resolvedBy, stdin, written, wire, serverSent,
                 dispatched, notifLog, handlers, settledAt, resumedAt, uncaught, discards, returned,
                 startPc, shutdownPc, shutdownId, docOps, graph>>

\* The setTimeout callback of sendRequest (engine only).
TimerFire(id) ==
  /\ ~ContinuationDue
  /\ id \in timers
  /\ timers' = timers \ {id}
  /\ pendingRequests' = pendingRequests \ {id}
  /\ outcome' = [outcome EXCEPT ![id] =
                   IF @.state = "pending" THEN [state |-> "timeout", value |-> Undefined] ELSE @]
  /\ UNCHANGED helperVars
  /\ UNCHANGED <<impl, process, child, exitEmitted, initialized, messageBuffer,
                 nextRequestId, resolvedBy, stdin, written, wire, serverSent,
                 dispatched, notifLog, handlers, settledAt, resumedAt, uncaught, discards, returned,
                 startPc, shutdownPc, shutdownId, docOps, graph>>

\* shutdown() up to its first await.
Shutdown ==
  /\ ~ContinuationDue
  /\ shutdownPc = "idle"
  /\ IF ~initialized
       THEN /\ shutdownPc' = "done"
            /\ UNCHANGED <<nextRequestId, stdin, written, pendingRequests, timers,
                           outcome, shutdownId>>
       ELSE /\ nextRequestId <= MaxId
            /\ SendRequest(ShutdownMethod, NoParams)
            /\ shutdownId' = nextRequestId
            /\ shutdownPc' = "await"
  /\ UNCHANGED helperVars
  /\ UNCHANGED <<impl, process, child, exitEmitted, initialized, messageBuffer,
                 resolvedBy, wire, serverSent, dispatched, notifLog, handlers,
                 settledAt, resumedAt, uncaught, discards, returned, startPc, docOps, graph>>

\* shutdown() after `await sendRequest('shutdown')`.
\* engine: try { ...; exit notification } catch {}; kill; process = null.
\* library: no try: a rejected shutdown request leaves shutdown() rejected.
ShutdownContinue ==
  /\ shutdownPc = "await"
  /\ outcome[shutdownId].state # "pending"
  /\ IF outcome[shutdownId].state = "result"
       THEN /\ SendNotification(ExitMethod, NoParams)
            /\ child' = IF child = "running" THEN "killed" ELSE child
            /\ process' = "null"
            /\ initialized' = FALSE
            /\ shutdownPc' = "done"
       ELSE IF impl = "engine"
         THEN /\ child' = IF child = "running" THEN "killed" ELSE child
              /\ process' = "null"
              /\ initialized' = FALSE
              /\ shutdownPc' = "done"
              /\ UNCHANGED <<stdin, written>>
         ELSE /\ shutdownPc' = "failed"
              /\ UNCHANGED <<stdin, written, child, process, initialized>>
  /\ Resume(shutdownId)
  /\ UNCHANGED helperVars
  /\ UNCHANGED <<impl, exitEmitted, messageBuffer, nextRequestId, pendingRequests,
                 timers, outcome, resolvedBy, wire, serverSent, dispatched,
                 notifLog, handlers, uncaught, discards, returned, startPc, shutdownId,
                 docOps, graph>>

\* The child process ends; the 'exit' listener of start() runs.
ChildExit ==
  /\ ~ContinuationDue
  /\ child \in {"running", "killed"}
  /\ child' = "exited"
  /\ exitEmitted' = TRUE
  /\ UNCHANGED helperVars
  /\ UNCHANGED <<impl, process, initialized, messageBuffer, nextRequestId,
                 pendingRequests, timers, outcome, resolvedBy, stdin, written,
                 wire, serverSent, dispatched, notifLog, handlers, settledAt, resumedAt,
                 uncaught, discards, returned, startPc, shutdownPc, shutdownId, docOps, graph>>

\* The ids the server puts in its responses: the ids of the requests written
\* so far and the one that would be issued next.
ServerIds == {i \in 1..MaxId : i <= nextRequestId}

\* The server numbers its own requests 1, 2, ... as the client does.
ServerRequestId == Cardinality({k \in 1..Len(serverSent) : serverSent[k].method = <<"w">>}) + 1

\* The error payload the server sends: code 7, message "x".
ServerError == <<"7", "x">>

\* What the server may write as its n-th message: a response (its result
\* text is the digit n, so every response written is distinguishable), an
\* error response, a notification or a request of its own.
ServerMessages(n) ==
  {Response(i, <<Digits[n + 1]>>) : i \in ServerIds}
    \cup {ErrorResponse(i, ServerError) : i \in ServerIds}
    \cup {Notification(PublishDiagnostics)}
    \cup {Request(ServerRequestId, <<"w">>)}

\* Every message the server can write within the bounds, with its bytes.
AllServerMessages ==
  {Response(i, <<Digits[n + 1]>>) : i \in Ids, n \in 1..MaxServerMsgs}
    \cup {ErrorResponse(i, ServerError) : i \in Ids}
    \cup {Notification(PublishDiagnostics)}
    \cup {Request(i, <<"w">>) : i \in 1..MaxServerMsgs}

EncodedServerMessage == [m \in AllServerMessages |-> Encode(m)]

ServerSend(m) ==
  /\ ~ContinuationDue
  /\ child = "running"
  /\ Len(serverSent) < MaxServerMsgs
  /\ Len(wire) < MaxChunks
  /\ m \in ServerMessages(Len(serverSent) + 1)
  /\ serverSent' = Append(serverSent, m)
  /\ wire' = Append(wire, EncodedServerMessage[m])
  /\ UNCHANGED helperVars
  /\ UNCHANGED <<impl, process, child, exitEmitted, initialized, messageBuffer,
                 nextRequestId, pendingRequests, timers, outcome, resolvedBy,
                 stdin, written, dispatched, notifLog, handlers, settledAt, resumedAt, uncaught, discards,
                 returned, startPc, shutdownPc, shutdownId, docOps, graph>>

\* The listener analyzeCodebase registers, called with a notification:
\*   analysis.diagnostics.set(params.uri, diagnostics), and errorCount++ for
\*   every diagnostic of severity 1.
\* The params of publishDiagnostics are the URI and the number of its
\* diagnostics, all of them errors.
DiagnosticsListener(cb, message) ==
  IF message.method = PublishDiagnostics /\ message.params # Undefined
    THEN LET uri == <<message.params[1]>>
             count == DigitVal(message.params[2])
         IN  [cb EXCEPT !.diagnostics[uri] = count, !.errorCount = @ + count]
  ELSE cb

\* handleMessage emits this message to the 'notification' listeners.
IsEmitted(message) ==
  message.id = NoId /\ message.method # Undefined /\ message.method # <<>>

\* The calls of that listener while handleData dispatches messages: entries
\* are the log entries of the emitted ones, which tell how many listeners
\* were called.
RECURSIVE ListenerEffects(_, _, _)
ListenerEffects(cb, messages, entries) ==
  IF messages = <<>> \/ entries = <<>> THEN cb
  ELSE IF ~IsEmitted(Head(messages)) THEN ListenerEffects(cb, Tail(messages), entries)
  ELSE ListenerEffects(IF Head(entries).called >= cb.listener
                         THEN DiagnosticsListener(cb, Head(messages)) ELSE cb,
                       Tail(messages), Tail(entries))

\* stdout 'data': handleData(chunk) for the first k chunks read as one.
Deliver(k) ==
  /\ ~ContinuationDue
  /\ k \in 1..Len(wire)
  /\ LET data == Flatten(SubSeq(wire, 1, k))
         loop == FrameLoop(messageBuffer \o Utf8Decode(data), <<>>)
         st   == DispatchAll(SessionPart, loop.bodies)
     IN  /\ messageBuffer' = loop.buffer
         /\ pendingRequests' = st.pending
         /\ timers' = st.timers
         /\ outcome' = st.outcome
         /\ resolvedBy' = st.resolvedBy
         /\ dispatched' = st.dispatched
         /\ notifLog' = st.notifLog
         /\ settledAt' = st.settledAt
         /\ uncaught' = (uncaught \/ st.thrown)
         /\ discards' = IF loop.discarded THEN discards + 1 ELSE discards
         /\ codebase' =
              IF codebase.listener = 0 THEN codebase
              ELSE ListenerEffects(codebase,
                                   SubSeq(st.dispatched, Len(dispatched) + 1, Len(st.dispatched)),
                                   SubSeq(st.notifLog, Len(notifLog) + 1, Len(st.notifLog)))
  /\ wire' = SubSeq(wire, k + 1, Len(wire))
  /\ UNCHANGED <<run, project, analysisResult>>
  /\ UNCHANGED <<impl, process, child, exitEmitted, initialized, nextRequestId,
                 stdin, written, serverSent, handlers, resumedAt, returned, startPc,
                 shutdownPc, shutdownId, docOps, graph>>

Next ==
  \/ Start
  \/ StartContinue
  \/ \E method \in QueryMethods : Query(method, PlainUri)
  \/ \E id \in Ids : QueryContinue(id)
  \/ \E id \in Ids : TimerFire(id)
  \/ \E k \in 1..MaxChunks : Deliver(k)
  \/ Shutdown
  \/ ShutdownContinue
  \/ ChildExit
  \/ \E m \in ServerMessages(Len(serverSent) + 1) : ServerSend(m)

Spec == Init /\ [][Next]_vars

TypeOK ==
  /\ impl \in Impls
  /\ process \in {"null", "child"}
  /\ child \in {"none", "running", "killed", "exited"}
  /\ nextRequestId \in 1..(MaxId + 3)
  /\ pendingRequests \subseteq Ids
  /\ timers \subseteq Ids
  /\ \A h \in 1..Len(handlers) : handlers[h] \in HandlerKinds
  /\ uncaught \in BOOLEAN

\* ------------------------------------------------------------------------
\* The framer on its own: the bytes of one or two encoded messages reach
\* handleData cut into at most MaxChunks chunks.
\* ------------------------------------------------------------------------
FramerMessages ==
  { Notification(PublishDiagnostics),
    Response(InitId, <<"a">>),
    Response(InitId, <<"e_acute">>),
    Notification(<<"a", "b", "c", "d", "e", "f", "g">>) }

RECURSIVE Cuttings(_, _)
\* Every way of cutting bytes into at most k non-empty consecutive chunks.
Cuttings(bytes, k) ==
  IF k <= 1 \/ Len(bytes) <= 1 THEN {<<bytes>>}
  ELSE {<<bytes>>} \cup
       UNION { { <<SubSeq(bytes, 1, i)>> \o rest :
                   rest \in Cuttings(SubSeq(bytes, i + 1, Len(bytes)), k - 1) } :
               i \in 1..(Len(bytes) - 1) }

FramerStreams == {<<m>> : m \in FramerMessages} \cup (FramerMessages \X FramerMessages)

\* The listeners a caller has registered before start(): two, of which one
\* may throw when called.
HandlerSetups ==
  {<<"returns", "returns">>, <<"throws", "returns">>, <<"returns", "throws">>}

\* The session right after start() has written the initialize request.
Started ==
  /\ process = "child"
  /\ child = "running"
  /\ exitEmitted = FALSE
  /\ initialized = FALSE
  /\ messageBuffer = <<>>
  /\ nextRequestId = 2
  /\ pendingRequests = {InitId}
  /\ outcome = [i \in Ids |-> IF i = InitId THEN Pending ELSE Unissued]
  /\ resolvedBy = [i \in Ids |-> NoMessage]
  /\ stdin = <<WithParams(Request(InitId, Initialize), NoParams)>>
  /\ written = <<Encode(WithParams(Request(InitId, Initialize), NoParams))>>
  /\ dispatched = <<>>
  /\ notifLog = <<>>
  /\ settledAt = [i \in Ids |-> NotYet]
  /\ resumedAt = [i \in Ids |-> NotYet]
  /\ uncaught = FALSE
  /\ discards = 0
  /\ returned = [i \in Ids |-> NotCalled]
  /\ startPc = "awaitInit"
  /\ shutdownPc = "idle"
  /\ shutdownId = 0
  /\ docOps = <<>>
  /\ graph = NoGraph

FramerInit ==
  /\ impl = "engine"
  /\ timers = {InitId}
  /\ Started
  /\ NoHelpers
  /\ handlers = <<"returns">>
  /\ serverSent \in FramerStreams
  /\ wire \in Cuttings(Flatten([i \in 1..Len(serverSent) |-> Encode(serverSent[i])]), MaxChunks)

FramerNext ==
  \/ Deliver(1)
  \/ StartContinue

FramerSpec == FramerInit /\ [][FramerNext]_vars

\* A callback of the event loop that is ready without new input: a timer
\* callback or the continuation of a settled await.
ReadyCallback ==
  \/ \E id \in Ids : TimerFire(id)
  \/ \E id \in Ids : QueryContinue(id)
  \/ StartContinue
  \/ ShutdownContinue

\* The session with the scheduling the event loop guarantees: a ready callback
\* runs, and data waiting on the pipe is read (the pipe is drained again and
\* again).
FairSpec ==
  /\ Spec
  /\ WF_vars(ReadyCallback)
  /\ []<>(wire = <<>>)

\* ------------------------------------------------------------------------
\* Properties
\* ------------------------------------------------------------------------
\* Position of the first occurrence of message m in sequence s, 0 when absent.
PositionIn(s, m) ==
  IF \E k \in 1..Len(s) : s[k] = m
    THEN CHOOSE k \in 1..Len(s) : s[k] = m /\ \A j \in 1..(k - 1) : s[j] # m
    ELSE 0

Settled(i) == outcome[i].state \in {"result", "remoteError"}

\* C1: a request is completed only by the inbound message that carries its own
\* id, and the result it completes with is the result that message carries,
\* whatever the order in which the responses arrive.
C1_CorrelationById ==
  \A i \in Ids :
    Settled(i) =>
      /\ resolvedBy[i].id = i
      /\ \E k \in 1..Len(serverSent) : serverSent[k] = resolvedBy[i]
      /\ outcome[i].state = "result" => outcome[i].value = resolvedBy[i].result
      /\ outcome[i].state = "remoteError" => outcome[i].value = ErrorMessage(resolvedBy[i].error)

\* Two requests in flight together, answered in the reverse of issue order.
C1_Witness ==
  \E i, j \in Ids :
    /\ i < j
    /\ outcome[i].state = "result"
    /\ outcome[j].state = "result"
    /\ PositionIn(dispatched, resolvedBy[j]) > 0
    /\ PositionIn(dispatched, resolvedBy[j]) < PositionIn(dispatched, resolvedBy[i])

RequestPositions == {k \in 1..Len(stdin) : stdin[k].id # NoId}

\* C2: the ids of the requests written are strictly increasing in write order
\* (so no id is used twice) and every pending key is below the next id.
C2_IdsNeverReused ==
  /\ \A a, b \in RequestPositions : a < b => stdin[a].id < stdin[b].id
  /\ \A i \in pendingRequests : i < nextRequestId
  /\ \A k \in RequestPositions : stdin[k].id < nextRequestId

\* A third request issued after one was answered and one timed out.
C2_Witness ==
  /\ nextRequestId = 4
  /\ outcome[1].state = "result"
  /\ outcome[2].state = "timeout"
  /\ 3 \in pendingRequests

\* C3: every request that is waiting for its response eventually stops
\* waiting (by its response or, when none arrives, by the timeout).
C3_PendingEventuallyCompletes ==
  \A i \in Ids : (outcome[i].state = "pending") ~> (outcome[i].state # "pending")

\* The messages handed to handleMessage by the step, when it is a read.
NewlyDispatched == SubSeq(dispatched', Len(dispatched) + 1, Len(dispatched'))

\* C4: a read that dispatches one message whose id has no pending entry
\* changes neither the pending map, the timers, the id counter, any outcome
\* nor the notification log; a timed-out request stays timed out.
C4_UnknownIdDropped ==
  [][ /\ ( /\ Len(dispatched') = Len(dispatched) + 1
           /\ NewlyDispatched[1].id # NoId
           /\ NewlyDispatched[1].id \notin pendingRequests )
         => /\ pendingRequests' = pendingRequests
            /\ timers' = timers
            /\ nextRequestId' = nextRequestId
            /\ outcome' = outcome
            /\ resolvedBy' = resolvedBy
            /\ notifLog' = notifLog
      /\ \A i \in Ids : outcome[i].state = "timeout" => outcome'[i] = outcome[i]
    ]_vars

\* A response to a request that had already timed out has been dispatched.
C4_Witness ==
  \E i \in Ids :
    /\ outcome[i].state = "timeout"
    /\ \E k \in 1..Len(dispatched) :
         /\ dispatched[k].id = i
         /\ dispatched[k].method = Undefined
         /\ dispatched[k].result # Undefined

\* C5: when the child exits and shutdown() was not called, the exit empties
\* the pending map and fails every request that was outstanding; no
\* notification reaches a listener after the exit.
C5_ExitFailsOutstanding ==
  /\ [][ (child # "exited" /\ child' = "exited" /\ shutdownPc = "idle")
           => /\ pendingRequests' = {}
              /\ \A i \in pendingRequests : outcome'[i].state = "processExited" ]_vars
  /\ [](\A k \in 1..Len(notifLog) : ~notifLog[k].afterExit)

\* C6: once a shutdown() that sent its request has returned, the pending map
\* is empty, nobody waits on an earlier request and the child is not running.
C6_ShutdownFailsOutstanding ==
  (shutdownPc = "done" /\ shutdownId # 0) =>
    /\ pendingRequests = {}
    /\ \A i \in Ids : outcome[i].state # "pending"
    /\ child # "running"

\* C7: shutdown() on an initialized session always returns, and when it has
\* returned the child was killed after the shutdown request and then the exit
\* notification were written, in that order.
C7_StopCompletesInOrder ==
  /\ [](shutdownPc \in {"done", "failed"} /\ shutdownId # 0
          => /\ shutdownPc = "done"
             /\ child # "running"
             /\ \E a, b \in 1..Len(stdin) :
                  /\ a < b
                  /\ stdin[a].id = shutdownId /\ stdin[a].method = ShutdownMethod
                  /\ stdin[b].id = NoId /\ stdin[b].method = ExitMethod)
  /\ (shutdownPc = "await") ~> (shutdownPc = "done")

\* C8: a request other than initialize is written only after the initialized
\* notification, i.e. after the handshake has completed.
C8_NoRequestBeforeHandshake ==
  \A k \in 1..Len(stdin) :
    (stdin[k].id # NoId /\ stdin[k].method # Initialize)
      => \E j \in 1..(k - 1) : stdin[j].id = NoId /\ stdin[j].method = Initialized

\* C9: one read that holds exactly the bytes of one encoded message, on an
\* empty buffer, dispatches exactly that message and leaves the buffer empty.
C9_RoundTripSingleRead ==
  [][ ( /\ Len(serverSent) = 1
        /\ Len(wire) = 1
        /\ wire' = <<>>
        /\ dispatched = <<>>
        /\ messageBuffer = <<>> )
        => (dispatched' = serverSent /\ messageBuffer' = <<>>) ]_vars

\* C10: once every chunk of encode(m1)+encode(m2) has been read, whatever the
\* cut points, the messages dispatched are exactly m1 then m2.
C10_ChunkIndependence ==
  (Len(serverSent) = 2 /\ wire = <<>>) => dispatched = serverSent

\* The messages of the streams that exercise the listeners: two
\* notifications and the response to initialize.
PumpMessages ==
  { Notification(PublishDiagnostics),
    Notification(<<"Q">>),
    Response(InitId, <<"a">>) }

\* The bytes of every message of the framer's streams.
EncodedFramerMessage == [m \in FramerMessages \cup PumpMessages |-> Encode(m)]

\* FramerSpec: the number of bytes of the first j messages of the stream.
RECURSIVE BytesUpTo(_)
BytesUpTo(j) ==
  IF j = 0 THEN 0 ELSE BytesUpTo(j - 1) + Len(EncodedFramerMessage[serverSent[j]])

\* FramerSpec: the number of bytes handleData has been given so far.
ArrivedBytes == BytesUpTo(Len(serverSent)) - Len(Flatten(wire))

\* C11: a message is dispatched only when all the bytes its header declares
\* have been read, and what is dispatched is the message those bytes encode;
\* a read that leaves the first message incomplete dispatches nothing and
\* keeps the buffer with the new text appended.
C11_OnlyCompleteMessages ==
  /\ [](\A k \in 1..Len(dispatched) :
          \E j \in 1..Len(serverSent) :
            /\ dispatched[k] = serverSent[j]
            /\ ArrivedBytes >= BytesUpTo(j))
  /\ [][ (wire # <<>> /\ wire' = Tail(wire) /\ ArrivedBytes' < BytesUpTo(1))
           => /\ dispatched' = <<>>
              /\ messageBuffer' = messageBuffer \o Utf8Decode(Head(wire)) ]_vars

\* ------------------------------------------------------------------------
\* A malformed frame followed, in later chunks, by a well-formed message
\* ------------------------------------------------------------------------
\* "Length: ": a header line without the Content-Length field.
HeaderWithoutLength == SubSeq(HeaderName, 9, 16)

\* What the child writes before the well-formed message: a header block with
\* no length field (alone, or followed by a body), or a frame whose body is
\* not JSON.  The bad frame is cut into at most MaxChunks chunks, the message
\* after it arrives in one or two chunks of its own.
BadFrames ==
  { HeaderWithoutLength \o <<"4">> \o HeaderEndMark,
    HeaderWithoutLength \o <<"4">> \o HeaderEndMark \o <<"{", "m", "D", "}">>,
    <<"X", ":", "SP", "1">> \o HeaderEndMark \o <<"z">>,
    Frame(<<"{", "x", "}">>) }

GoodMessages == {Response(InitId, <<"a">>), Notification(PublishDiagnostics)}

MalformedInit ==
  /\ impl \in Impls
  /\ timers = IF impl = "engine" THEN {InitId} ELSE {}
  /\ Started
  /\ NoHelpers
  /\ handlers = <<"returns">>
  /\ serverSent \in {<<m>> : m \in GoodMessages}
  /\ \E bad \in BadFrames :
       wire \in { b \o g : b \in Cuttings(Utf8Encode(bad), MaxChunks),
                           g \in Cuttings(EncodedFramerMessage[serverSent[1]], 2) }

MalformedSpec == MalformedInit /\ [][FramerNext]_vars

\* C12: a read that discards the buffer empties it and completes and
\* dispatches nothing; no exception ever leaves handleData; and once every
\* chunk has been read the well-formed message that followed the bad frame
\* has been dispatched, and only it.
C12_MalformedHeaderRecovered ==
  /\ [][ discards' # discards
           => /\ messageBuffer' = <<>>
              /\ dispatched' = dispatched
              /\ outcome' = outcome
              /\ pendingRequests' = pendingRequests ]_vars
  /\ [](~uncaught)
  /\ [](wire = <<>> => dispatched = serverSent /\ messageBuffer = <<>>)

\* A header block without length field was discarded and the initialize
\* response that came after it has completed the request.
C12_Witness ==
  /\ wire = <<>>
  /\ discards = 1
  /\ dispatched = serverSent
  /\ outcome[InitId].state = "result"

\* ------------------------------------------------------------------------
\* Documents and the call graph helper (lsp_operations.ts buildCallGraph)
\* ------------------------------------------------------------------------
\* buildCallGraph(client, uri, position, maxDepth = 3)
MaxDepth == 3

\* references.slice(0, 10)
RefLimit == 10

\* The documents the server holds open after the first n writes: opened by a
\* didOpen that no later didClose has closed.
OpenAt(n) ==
  {u \in Uris :
     \E k \in 1..n :
       /\ stdin[k].id = NoId /\ stdin[k].method = DidOpen /\ stdin[k].params = u
       /\ \A j \in (k + 1)..n :
            ~(stdin[j].id = NoId /\ stdin[j].method = DidClose /\ stdin[j].params = u)}

OpenUris == OpenAt(Len(stdin))

\* The caller of the helper is sequential: it awaits buildCallGraph.
GraphRunning == graph.pc \in {"hover", "references"}

\* openDocument(uri, languageId, version, text)
OpenDocument(uri) ==
  /\ ~ContinuationDue
  /\ ~GraphRunning
  /\ process = "child"
  /\ Len(docOps) < MaxDocOps
  /\ SendNotification(DidOpen, uri)
  /\ docOps' = Append(docOps, [op |-> "open", uri |-> uri])
  /\ UNCHANGED helperVars
  /\ UNCHANGED <<impl, process, child, exitEmitted, initialized, messageBuffer,
                 nextRequestId, pendingRequests, timers, outcome, resolvedBy, wire,
                 serverSent, dispatched, notifLog, handlers, settledAt, resumedAt,
                 uncaught, discards, returned, startPc, shutdownPc, shutdownId, graph>>

\* closeDocument(uri)
CloseDocument(uri) ==
  /\ ~ContinuationDue
  /\ ~GraphRunning
  /\ process = "child"
  /\ Len(docOps) < MaxDocOps
  /\ SendNotification(DidClose, uri)
  /\ docOps' = Append(docOps, [op |-> "close", uri |-> uri])
  /\ UNCHANGED helperVars
  /\ UNCHANGED <<impl, process, child, exitEmitted, initialized, messageBuffer,
                 nextRequestId, pendingRequests, timers, outcome, resolvedBy, wire,
                 serverSent, dispatched, notifLog, handlers, settledAt, resumedAt,
                 uncaught, discards, returned, startPc, shutdownPc, shutdownId, graph>>

\* A traversal in progress: its URI and the references still to visit.
Traversal(uri, refs) == [uri |-> uri, refs |-> refs]

NoUri == Undefined

\* The for loop of traverse and the returns to the callers: the next
\* traverse(ref.uri, ...) that gets past the depth and visited checks, or
\* NoUri when the outermost traverse has returned.  The depth of a traversal is
\* its position in the stack minus one.
RECURSIVE Advance(_, _)
Advance(stack, visited) ==
  IF stack = <<>> THEN [stack |-> <<>>, visited |-> visited, next |-> NoUri]
  ELSE LET n == Len(stack)
           top == stack[n]
       IN  IF top.refs = <<>> THEN Advance(SubSeq(stack, 1, n - 1), visited)
           ELSE LET ref == <<Head(top.refs)>>
                    rest == [stack EXCEPT ![n].refs = Tail(top.refs)]
                IN  IF n >= MaxDepth \/ ref \in visited THEN Advance(rest, visited)
                    ELSE [stack |-> Append(rest, Traversal(ref, <<>>)),
                          visited |-> visited \cup {ref},
                          next |-> ref]

\* buildCallGraph(client, uri, position): traverse(uri, position, 0) up to its
\* first await, client.hover(currentUri, currentPos).  The caller passes a
\* document it has open.
BuildCallGraph(uri) ==
  /\ ~ContinuationDue
  /\ impl = "library"
  /\ graph.pc = "idle"
  /\ startPc = "ready"
  /\ uri \in OpenUris
  /\ nextRequestId \in Ids
  /\ SendRequest(Hover, uri)
  /\ graph' = [pc |-> "hover", id |-> nextRequestId,
               stack |-> <<Traversal(uri, <<>>)>>, visited |-> {uri}]
  /\ UNCHANGED helperVars
  /\ UNCHANGED <<impl, process, child, exitEmitted, initialized, messageBuffer,
                 resolvedBy, wire, serverSent, dispatched, notifLog, handlers,
                 settledAt, resumedAt, uncaught, discards, returned, startPc,
                 shutdownPc, shutdownId, docOps>>

\* traverse resumes after an await: after hover it calls findReferences for
\* the same URI; after findReferences it walks the first RefLimit references
\* and calls hover for the next one to traverse.  A rejected request rejects
\* buildCallGraph.
GraphContinue ==
  /\ GraphRunning
  /\ outcome[graph.id].state # "pending"
  /\ LET n == Len(graph.stack)
         top == graph.stack[n]
     IN  IF outcome[graph.id].state # "result"
           THEN /\ graph' = [graph EXCEPT !.pc = "failed"]
                /\ UNCHANGED <<nextRequestId, stdin, written, pendingRequests, timers, outcome>>
         ELSE IF graph.pc = "hover"
           THEN /\ nextRequestId \in Ids
                /\ SendRequest(References, top.uri)
                /\ graph' = [graph EXCEPT !.pc = "references", !.id = nextRequestId]
         ELSE LET references == outcome[graph.id].value
                  first == SubSeq(references, 1,
                                  IF Len(references) < RefLimit THEN Len(references) ELSE RefLimit)
                  adv == Advance([graph.stack EXCEPT ![n].refs = first], graph.visited)
              IN  IF adv.next = NoUri
                    THEN /\ graph' = [pc |-> "done", id |-> 0, stack |-> <<>>,
                                      visited |-> adv.visited]
                         /\ UNCHANGED <<nextRequestId, stdin, written, pendingRequests,
                                        timers, outcome>>
                    ELSE /\ nextRequestId \in Ids
                         /\ SendRequest(Hover, adv.next)
                         /\ graph' = [pc |-> "hover", id |-> nextRequestId,
                                      stack |-> adv.stack, visited |-> adv.visited]
  /\ Resume(graph.id)
  /\ UNCHANGED helperVars
  /\ UNCHANGED <<impl, process, child, exitEmitted, initialized, messageBuffer,
                 resolvedBy, wire, serverSent, dispatched, notifLog, handlers,
                 uncaught, discards, returned, startPc, shutdownPc, shutdownId, docOps>>

\* The reference lists the server answers with: locations in the plain
\* documents (one character per location).
RefResults == {<<>>, PlainUri, OtherUri, PlainUri \o OtherUri}

\* What the server may answer to a request.
Replies(request) ==
  IF request.method = References THEN {Response(request.id, r) : r \in RefResults}
  ELSE IF request.method \in {Hover, Completion}
    THEN {Response(request.id, <<"h">>), ErrorResponse(request.id, ServerError)}
  ELSE {Response(request.id, <<"k">>)}

AllReplies ==
  UNION {Replies(WithParams(Request(i, method), NoParams)) :
           i \in Ids, method \in {Initialize, References, Hover}}

EncodedReply == [m \in AllReplies |-> Encode(m)]

\* The requests the server has not answered yet.
Unanswered ==
  {k \in 1..Len(stdin) :
     /\ stdin[k].id # NoId
     /\ \A j \in 1..Len(serverSent) : serverSent[j].id # stdin[k].id}

\* The server answers one of the requests it has received.
ServerReply(m) ==
  /\ ~ContinuationDue
  /\ child = "running"
  /\ Len(wire) < MaxChunks
  /\ \E k \in Unanswered : m \in Replies(stdin[k])
  /\ serverSent' = Append(serverSent, m)
  /\ wire' = Append(wire, EncodedReply[m])
  /\ UNCHANGED helperVars
  /\ UNCHANGED <<impl, process, child, exitEmitted, initialized, messageBuffer,
                 nextRequestId, pendingRequests, timers, outcome, resolvedBy,
                 stdin, written, dispatched, notifLog, handlers, settledAt,
                 resumedAt, uncaught, discards, returned, startPc, shutdownPc,
                 shutdownId, docOps, graph>>

DocNext ==
  \/ Start
  \/ StartContinue
  \/ \E uri \in Uris : OpenDocument(uri)
  \/ \E uri \in Uris : CloseDocument(uri)
  \/ \E uri \in Uris : BuildCallGraph(uri)
  \/ GraphContinue
  \/ \E m \in AllReplies : ServerReply(m)
  \/ \E k \in 1..MaxChunks : Deliver(k)

DocSpec == Init /\ [][DocNext]_vars

\* The header block and the body of one write: the bytes before and after
\* the first blank line.
HeaderOf(bytes) == SubSeq(bytes, 1, IndexOf(bytes, HeaderEndMark))

BodyOf(bytes) == SubSeq(bytes, IndexOf(bytes, HeaderEndMark) + 5, Len(bytes))

\* One write consists of the header name, the decimal number of bytes of the
\* body, a blank line and the body, which is the JSON text of the message.
WrittenWith(name, k) ==
  /\ IndexOf(written[k], HeaderEndMark) # -1
  /\ HeaderOf(written[k]) = name \o ToDecimal(Len(BodyOf(written[k])))
  /\ BodyOf(written[k]) = Utf8Encode(Stringify(stdin[k]))

\* C13 as stated: every request and notification is written as "Length: " N,
\* a blank line and the body, N being the number of UTF-8 bytes of the body.
C13_LengthHeader ==
  \A k \in 1..Len(written) : WrittenWith(HeaderWithoutLength, k)

\* C13 amended: the header text is "Content-Length: "; N is the number of
\* UTF-8 bytes of the body.
C13_ContentLengthHeader ==
  \A k \in 1..Len(written) : WrittenWith(HeaderName, k)

\* A request and a notification whose bodies hold a two-byte character have
\* been written.
C13_Witness ==
  /\ \E k \in 1..Len(stdin) : stdin[k].id # NoId /\ stdin[k].params = AccentUri
  /\ \E k \in 1..Len(stdin) : stdin[k].id = NoId /\ stdin[k].params = AccentUri

\* C17: every references or hover request is written for a document that a
\* didOpen has opened and no didClose has closed before the request.
C17_QueriesOnOpenDocuments ==
  \A k \in 1..Len(stdin) :
    (stdin[k].id # NoId /\ stdin[k].method \in {Hover, References})
      => stdin[k].params \in OpenAt(k - 1)

\* C18: closeDocument for a document that is not open writes nothing to the
\* server and leaves the set of open documents as it was.
C18_CloseUnopenedIsNoOp ==
  [][ (/\ Len(docOps') = Len(docOps) + 1
       /\ docOps'[Len(docOps')].op = "close"
       /\ docOps'[Len(docOps')].uri \notin OpenUris)
        => /\ stdin' = stdin
           /\ written' = written
           /\ OpenUris' = OpenUris ]_vars

\* ------------------------------------------------------------------------
\* Listeners: streams of two or three whole messages, read in chunks that end
\* at message boundaries, with listeners that may throw
\* ------------------------------------------------------------------------
PumpStreams ==
  (PumpMessages \X PumpMessages) \cup (PumpMessages \X PumpMessages \X PumpMessages)

\* The bytes of a group of messages written together.
ChunkOf(messages) == Flatten([i \in 1..Len(messages) |-> EncodedFramerMessage[messages[i]]])

PumpInit ==
  /\ impl = "engine"
  /\ timers = {InitId}
  /\ Started
  /\ NoHelpers
  /\ handlers \in HandlerSetups
  /\ serverSent \in PumpStreams
  /\ \E groups \in Cuttings(serverSent, MaxChunks) :
       wire = [c \in 1..Len(groups) |-> ChunkOf(groups[c])]

PumpSpec == PumpInit /\ [][FramerNext]_vars

IsNotification(m) == m.id = NoId /\ m.method # Undefined

MethodsOf(log) == [k \in 1..Len(log) |-> log[k].method]

\* C14: every notification dispatched is handed to every registered listener
\* (also when another listener throws), and the listeners get the
\* notifications in the order of the wire.
C14_EveryHandlerInOrder ==
  /\ \A k \in 1..Len(notifLog) : notifLog[k].called = Len(handlers)
  /\ MethodsOf(notifLog) = MethodsOf(SelectSeq(dispatched, IsNotification))

\* A listener has thrown while a notification was being emitted.
Threw == \E k \in 1..Len(notifLog) : handlers[notifLog[k].called] = "throws"

\* C15: after a listener has thrown no exception has left handleData, the
\* messages dispatched are exactly the messages whose bytes have been read
\* (so the ones after the notification, in the same chunk and in later
\* chunks, are dispatched too), the buffer holds no stale text, and the
\* pending map holds exactly the requests that have not been answered.
C15_PumpingSurvivesThrow ==
  Threw =>
    /\ ~uncaught
    /\ \E j \in 0..Len(serverSent) :
         /\ BytesUpTo(j) = ArrivedBytes
         /\ dispatched = SubSeq(serverSent, 1, j)
    /\ messageBuffer = <<>>
    /\ \A i \in Ids : i \in pendingRequests <=> outcome[i].state = "pending"
    /\ (InitId \in pendingRequests) <=> (\A k \in 1..Len(dispatched) : dispatched[k].id # InitId)

\* A listener threw on the first message; the response and the notification
\* that followed it were dispatched and the request was completed.
C15_Witness ==
  /\ Threw
  /\ wire = <<>>
  /\ Len(serverSent) = 3
  /\ IsNotification(serverSent[1])
  /\ serverSent[2] = Response(InitId, <<"a">>)
  /\ IsNotification(serverSent[3])
  /\ dispatched = serverSent
  /\ Len(notifLog) = 2
  /\ startPc = "ready"

\* The position in dispatched of the response that settled request i.
SettlePosition(i) ==
  CHOOSE k \in 1..Len(dispatched) :
    /\ dispatched[k].id = i
    /\ \A j \in 1..(k - 1) : dispatched[j].id # i

NotificationsBefore(i) ==
  Cardinality({k \in 1..(SettlePosition(i) - 1) : IsNotification(dispatched[k])})

\* C16: when the caller that waits for a response resumes, the listeners have
\* run for exactly the notifications that arrived before that response: all
\* of them, and none that arrived after it.
C16_WireOrderAcrossKinds ==
  \A i \in Ids :
    settledAt[i] # NotYet =>
      /\ settledAt[i] = NotificationsBefore(i)
      /\ resumedAt[i] # NotYet => resumedAt[i] = settledAt[i]

\* ------------------------------------------------------------------------
\* The query facade and remote errors
\* ------------------------------------------------------------------------
\* What the facade hands back when the request behind it has failed.
EmptyResult(method) == IF method = Hover THEN Null ELSE EmptyList

\* C19: a facade call that has come back has returned, never thrown, and it
\* has returned the empty list (hover: null) when its request timed out, was
\* answered with an error response or failed because the process exited.
C19_FacadeNeverPropagates ==
  \A i \in Ids :
    returned[i].state \notin {"none", "waiting"} =>
      /\ returned[i].state = "returned"
      /\ outcome[i].state # "result" => returned[i].value = EmptyResult(MethodOf(i))

\* C20: a request completed as a remote error was completed by the error
\* response that carries its own id, and the error handed to the caller holds
\* the code and the message of that response.
C20_RemoteErrorCarriesCodeAndMessage ==
  \A i \in Ids :
    outcome[i].state = "remoteError" =>
      /\ resolvedBy[i].id = i
      /\ resolvedBy[i].error # Undefined
      /\ outcome[i].value = resolvedBy[i].error

\* ------------------------------------------------------------------------
\* The detectors of analyzeProject (Phase 2), as functions of the symbol
\* index, the file contents and the answers of the query facade
\* ------------------------------------------------------------------------
sessionVars == <<impl, process, child, exitEmitted, initialized, messageBuffer,
                 nextRequestId, pendingRequests, timers, outcome, resolvedBy, stdin,
                 written, wire, serverSent, dispatched, notifLog, handlers,
                 settledAt, resumedAt, uncaught, discards, returned, startPc,
                 shutdownPc, shutdownId, docOps, graph>>

\* SYMBOL_KINDS
SYMBOL_KINDS ==
  <<"file", "module", "namespace", "package", "class", "method", "property",
    "field", "constructor", "enum", "interface", "function", "variable",
    "constant", "string", "number", "boolean", "array", "object", "key", "null",
    "enummember", "struct", "event", "operator", "typeparameter">>

\* SYMBOL_KINDS[sym.kind] || 'unknown'
KindName(kind) == IF kind \in 1..Len(SYMBOL_KINDS) THEN SYMBOL_KINDS[kind] ELSE "unknown"

\* One entry of allSymbols.  line and endLine are range.start.line and
\* range.end.line (0-based); the selection point is on the start line.
SymbolInfo(name, fullName, kind, file, line, endLine) ==
  [name |-> name, fullName |-> fullName, kind |-> kind, kindName |-> KindName(kind),
   file |-> file, line |-> line, endLine |-> endLine]

\* A top-level symbol on line 0 of its file.
TopSymbol(name, kind, file) == SymbolInfo(name, name, kind, file, 0, 0)

\* A location of a references result.
Location(file) == [file |-> file]

\* What the detectors read: the index, per symbol the answers of
\* client.findReferences and client.hover at its selection point, the text of
\* each file (a sequence of lines) and the analyses selected.
Project(kind, allSymbols, references, hovers, fileContents, analysis) ==
  [kind |-> kind, allSymbols |-> allSymbols, references |-> references,
   hovers |-> hovers, fileContents |-> fileContents,
   analysisTypes |-> analysis]

\* runAll || analysisTypes.has(name)
Selected(p, name) == "all" \in p.analysisTypes \/ name \in p.analysisTypes

\* sym.name.startsWith(c)
StartsWith(name, c) == Len(name) > 0 /\ name[1] = c

\* The increasing sequence of the indexes in 1..n that pass the test: the
\* `for (const sym of allSymbols) { if (...) continue; ... }` loops.
Filtered(n, Test(_)) == SelectSeq([i \in 1..n |-> i], Test)

\* The entries At(k) for the positions k in idx, in that order.
SelectedOf(idx, At(_)) == [k \in 1..Len(idx) |-> At(idx[k])]

\* const result: AnalysisResult = { ... } before any detector has run.
FreshResult ==
  [phase |-> 0, unusedSymbols |-> <<>>, signatureGroups |-> <<>>,
   cooccurrenceGroups |-> <<>>, deadParameters |-> <<>>, hotspots |-> <<>>,
   similarTypes |-> <<>>]

\* ---- Unused symbols ----
\* const exportableKinds = [5, 6, 11, 12]
ExportableKinds == {5, 6, 11, 12}

\* Every finding rated high.
ConfidenceAlwaysHigh(kind) == "high"

\* confidence: sym.kind === 5 || sym.kind === 12 ? 'high' : 'medium'
Confidence(kind) == IF kind = 5 \/ kind = 12 THEN "high" ELSE "medium"

UnusedSymbols(p) ==
  LET Reported(i) ==
        /\ p.allSymbols[i].kind \in ExportableKinds
        /\ ~StartsWith(p.allSymbols[i].name, "_")
        /\ ~StartsWith(p.allSymbols[i].name, "#")
        /\ Len(p.references[i]) = 0
      idx == Filtered(Len(p.allSymbols), Reported)
  IN  [k \in 1..Len(idx) |->
         LET sym == p.allSymbols[idx[k]]
         IN  [name |-> sym.name, kind |-> sym.kindName, file |-> sym.file,
              line |-> sym.line + 1, referenceCount |-> 0,
              confidence |-> Confidence(sym.kind)]]

\* The inputs of the unused detector: one symbol of any name, kind and
\* reference count, and two functions f and g in two files.
SymbolNames == {<<"f">>, <<"_", "g">>, <<"#", "h">>}

SymbolKindsTried == {5, 6, 11, 12, 13}

RefsTried == {<<>>, <<Location("f2")>>}

NoContents == [f \in {} |-> <<>>]

UnusedProjects ==
  {Project("unused", <<TopSymbol(name, kind, "f1")>>, <<refs>>, <<Null>>, NoContents, types) :
     name \in SymbolNames, kind \in SymbolKindsTried, refs \in RefsTried,
     types \in {{"all"}, {"unused"}}}
    \cup
  {Project("unused", <<TopSymbol(<<"f">>, 12, "f1"), TopSymbol(<<"g">>, 12, "f1")>>,
           <<r1, r2>>, <<Null, Null>>, NoContents, {"unused"}) :
     r1 \in RefsTried, r2 \in RefsTried}

\* ---- Similar signatures ----
\* \w of a JavaScript regular expression.
WordChars ==
  {"a", "b", "c", "d", "e", "f", "g", "h", "i", "j", "k", "l", "m", "n", "o", "p",
   "q", "r", "s", "t", "u", "v", "w", "x", "y", "z", "_",
   "A", "B", "C", "D", "E", "F", "G", "H", "I", "J", "K", "L", "M", "N", "O", "P",
   "Q", "R", "S", "T", "U", "V", "W", "X", "Y", "Z"} \cup DigitChars

\* \s of a JavaScript regular expression (the characters the model uses).
SpaceChars == {" ", "\n", "\t"}

\* The length of the longest prefix of text made of characters of the set.
RunLength(text, chars) ==
  LET runs == {k \in 0..Len(text) : \A j \in 1..k : text[j] \in chars}
  IN  CHOOSE k \in runs : \A j \in runs : j <= k

\* text from its (1-based) position i on.
From(text, i) == SubSeq(text, i, Len(text))

RECURSIVE RemoveNames(_)
\* detail.replace(/\w+\s*:\s*/g, ''): every word that is followed, after
\* optional white space, by a colon goes with the colon and the white space
\* after it.
RemoveNames(text) ==
  IF text = <<>> THEN <<>>
  ELSE LET w  == RunLength(text, WordChars)
           s1 == RunLength(From(text, w + 1), SpaceChars)
       IN  IF w > 0 /\ w + s1 < Len(text) /\ text[w + s1 + 1] = ":"
             THEN LET s2 == RunLength(From(text, w + s1 + 2), SpaceChars)
                  IN  RemoveNames(From(text, w + s1 + s2 + 2))
           ELSE IF w > 0 THEN SubSeq(text, 1, w) \o RemoveNames(From(text, w + 1))
           ELSE <<text[1]>> \o RemoveNames(Tail(text))

RECURSIVE CollapseSpace(_)
\* .replace(/\s+/g, ' ')
CollapseSpace(text) ==
  IF text = <<>> THEN <<>>
  ELSE LET s == RunLength(text, SpaceChars)
       IN  IF s > 0 THEN <<" ">> \o CollapseSpace(From(text, s + 1))
           ELSE <<text[1]>> \o CollapseSpace(Tail(text))

\* String.prototype.trim()
Trim(text) ==
  LET lead == RunLength(text, SpaceChars)
      rest == From(text, lead + 1)
      keep == {k \in 0..Len(rest) : k = 0 \/ rest[k] \notin SpaceChars}
  IN  SubSeq(rest, 1, CHOOSE k \in keep : \A j \in keep : j <= k)

UnknownSignature == <<"u", "n", "k", "n", "o", "w", "n">>

\* extractSignature(detail)
extractSignature(detail) ==
  IF detail = <<>> THEN UnknownSignature
  ELSE Trim(CollapseSpace(RemoveNames(detail)))

\* The null of a failed hover call taken for a hover text.
HoverContentOfNull(hover) == hover

\* hover?.contents?.value || hover?.contents || ''
HoverContent(hover) == IF hover = Null THEN <<>> ELSE hover

\* The order in which the entries were built.
BuiltOrder(keys) == [r \in 1..Len(keys) |-> r]

\* The order Array.prototype.sort((a, b) => key(b) - key(a)) puts the entries
\* in, given their keys: descending and stable.  The r-th element is the
\* original position of the entry that ends at position r.
SortOrder(keys) ==
  LET n == Len(keys)
      Rank(i) == Cardinality({j \in 1..n : keys[j] > keys[i]})
                   + Cardinality({j \in 1..(i - 1) : keys[j] = keys[i]}) + 1
  IN  [r \in 1..n |-> CHOOSE i \in 1..n : Rank(i) = r]

\* list.sort((a, b) => Key(b) - Key(a))
SortDescending(list, Key(_)) ==
  LET order == SortOrder([k \in 1..Len(list) |-> Key(list[k])])
  IN  [r \in 1..Len(list) |-> list[order[r]]]

GroupSize(group) == Len(group.functions)

SignatureGroups(p) ==
  LET SignatureAt(i) == extractSignature(HoverContent(p.hovers[i]))
      Grouped(i) ==
        /\ p.allSymbols[i].kindName \in {"function", "method"}
        /\ ~StartsWith(p.allSymbols[i].name, "_")
        /\ SignatureAt(i) # <<>>
        /\ SignatureAt(i) # UnknownSignature
      idx == Filtered(Len(p.allSymbols), Grouped)
      First(k) == \A j \in 1..(k - 1) : SignatureAt(idx[j]) # SignatureAt(idx[k])
      keys == Filtered(Len(idx), First)
      MembersOf(k) ==
        LET Same(j) == SignatureAt(idx[j]) = SignatureAt(idx[k])
            at == Filtered(Len(idx), Same)
        IN  [m \in 1..Len(at) |->
               LET sym == p.allSymbols[idx[at[m]]]
               IN  [name |-> sym.fullName, file |-> sym.file, line |-> sym.line + 1]]
      groups == [g \in 1..Len(keys) |->
                   [signature |-> SignatureAt(idx[keys[g]]), functions |-> MembersOf(keys[g])]]
      AtLeastTwo(group) == Len(group.functions) >= 2
  IN  SortDescending(SelectSeq(groups, AtLeastTwo), GroupSize)

\* A signature as the claim writes it: a name, parameters with their types and
\* an optional return annotation.
Param(name, type) == [name |-> name, type |-> type]

Signature(name, params, ret) == [name |-> name, params |-> params, ret |-> ret]

NumberType == <<"n", "u", "m", "b", "e", "r">>

VoidType == <<"v", "o", "i", "d">>

\* The text of a signature: a(x: number) and c(z: number): void.
Render(sig) ==
  sig.name \o <<"(">>
    \o Flatten([k \in 1..Len(sig.params) |->
                  (IF k > 1 THEN <<",", " ">> ELSE <<>>)
                    \o sig.params[k].name \o <<":", " ">> \o sig.params[k].type])
    \o <<")">>
    \o (IF sig.ret = <<>> THEN <<>> ELSE <<":", " ">> \o sig.ret)

SignaturesTried ==
  {Signature(name, <<Param(param, NumberType)>>, ret) :
     name \in {<<"a">>, <<"b">>, <<"c">>},
     param \in {<<"x">>, <<"y">>, <<"z">>},
     ret \in {<<>>, VoidType}}

RenderedSignature == [sig \in SignaturesTried |-> Render(sig)]

\* Three functions a, b and c of one file, each with one number parameter and
\* with or without a void return annotation; and five declarations of a in
\* five files, with or without the annotation.
SignatureProjects ==
  {Project("signatures",
           <<SymbolInfo(<<"a">>, <<"a">>, 12, "f1", 0, 0),
             SymbolInfo(<<"b">>, <<"b">>, 12, "f1", 1, 1),
             SymbolInfo(<<"c">>, <<"c">>, 12, "f1", 2, 2)>>,
           <<<<>>, <<>>, <<>>>>,
           <<RenderedSignature[Signature(<<"a">>, <<Param(<<"x">>, NumberType)>>, ra)],
             RenderedSignature[Signature(<<"b">>, <<Param(pb, NumberType)>>, rb)],
             RenderedSignature[Signature(<<"c">>, <<Param(<<"z">>, NumberType)>>, rc)]>>,
           NoContents, {"signatures"}) :
     ra \in {<<>>, VoidType}, rb \in {<<>>, VoidType}, rc \in {<<>>, VoidType},
     pb \in {<<"x">>, <<"y">>}}
    \cup
  {Project("signatures",
           [k \in 1..5 |-> TopSymbol(<<"a">>, 12, <<"f1", "f2", "f3", "f4", "f5">>[k])],
           [k \in 1..5 |-> <<>>],
           [k \in 1..5 |->
              RenderedSignature[Signature(<<"a">>, <<Param(<<"x">>, NumberType)>>, rets[k])]],
           NoContents, {"signatures"}) :
     rets \in [1..5 -> {<<>>, VoidType}]}

\* ---- Symbol co-occurrence ----
\* One entry of a documentSymbol result.
DocumentSymbol(name, kind, children) == [name |-> name, kind |-> kind, children |-> children]

RECURSIVE flattenSymbols(_, _, _)
\* flattenSymbols(symbols, uri, file, parentName): every symbol followed by its
\* children, the children named parent.child.
flattenSymbols(symbols, file, parentName) ==
  IF symbols = <<>> THEN <<>>
  ELSE LET sym == Head(symbols)
           fullName == IF parentName = <<>> THEN sym.name
                       ELSE parentName \o <<".">> \o sym.name
       IN  <<SymbolInfo(sym.name, fullName, sym.kind, file, 0, 0)>>
             \o flattenSymbols(sym.children, file, fullName)
             \o flattenSymbols(Tail(symbols), file, parentName)

\* The elements of a list in the order of their first occurrence: what
\* iterating a Set or the keys of a Map built from the list yields.
Distinct(list) ==
  LET First(k) == \A j \in 1..(k - 1) : list[j] # list[k]
      idx == Filtered(Len(list), First)
  IN  [k \in 1..Len(idx) |-> list[idx[k]]]

Elements(list) == {list[k] : k \in 1..Len(list)}

\* The order of the first characters of the names under
\* Array.prototype.sort() (UTF-16 code units).
NameOrder == <<"#", "X", "Y", "Z", "_", "a", "b", "c", "d", "e", "f", "g", "h">>

NameRank(name) == CHOOSE r \in 1..Len(NameOrder) : NameOrder[r] = name[1]

\* [a, b].sort().join('|') and, later, pair.split('|'): the two names in
\* sorted order (a name holds no '|').
PairKey(a, b) == IF NameRank(a) <= NameRank(b) THEN <<a, b>> ELSE <<b, a>>

OccurrenceCount(group) == group.occurrenceCount

CooccurrenceGroups(p) ==
  LET Counted(i) == p.allSymbols[i].kindName \in {"function", "class", "interface"}
      idx == Filtered(Len(p.allSymbols), Counted)
      files == Distinct([k \in 1..Len(idx) |-> p.allSymbols[idx[k]].file])
      NamesIn(file) ==
        LET In(k) == p.allSymbols[idx[k]].file = file
            at == Filtered(Len(idx), In)
        IN  Distinct([k \in 1..Len(at) |-> p.allSymbols[idx[at[k]]].name])
      PairsIn(file) ==
        LET symArray == NamesIn(file)
            n == Len(symArray)
        IN  Flatten([i \in 1..n |->
                       [d \in 1..(n - i) |-> PairKey(symArray[i], symArray[i + d])]])
      pairs == Distinct(Flatten([f \in 1..Len(files) |-> PairsIn(files[f])]))
      FilesOf(pair) ==
        LET Has(f) == \E k \in 1..Len(PairsIn(files[f])) : PairsIn(files[f])[k] = pair
            at == Filtered(Len(files), Has)
        IN  [k \in 1..Len(at) |-> files[at[k]]]
      data == [k \in 1..Len(pairs) |->
                 [symbols |-> pairs[k], files |-> FilesOf(pairs[k]),
                  occurrenceCount |-> Len(FilesOf(pairs[k]))]]
      InThreeFiles(group) == Len(group.files) >= 3
  IN  SortDescending(SelectSeq(data, InThreeFiles), OccurrenceCount)

FunctionX == DocumentSymbol(<<"X">>, 12, <<>>)

FunctionY == DocumentSymbol(<<"Y">>, 12, <<>>)

ClassZ == DocumentSymbol(<<"Z">>, 5, <<>>)

\* The outlines tried for a file: X alone, X and Y, Y nested inside X, the
\* three names, X and Z.
OutlinesTried ==
  { <<FunctionX>>,
    <<FunctionX, FunctionY>>,
    <<FunctionY, FunctionX>>,
    <<DocumentSymbol(<<"X">>, 12, <<FunctionY>>)>>,
    <<FunctionX, FunctionY, ClassZ>>,
    <<FunctionX, ClassZ>> }

SourceFiles == <<"f1", "f2", "f3", "f4">>

FlatOutline == [outline \in OutlinesTried, file \in Elements(SourceFiles) |->
                  flattenSymbols(outline, file, <<>>)]

\* Four files, each with one of the outlines.
CooccurrenceProjects ==
  {LET all == Flatten([f \in 1..4 |-> FlatOutline[outlines[f], SourceFiles[f]]])
   IN  Project("cooccurrence", all, [k \in 1..Len(all) |-> <<>>],
               [k \in 1..Len(all) |-> Null], NoContents, {"cooccurrence"}) :
     outlines \in [1..4 -> OutlinesTried]}

\* ---- Dead parameters ----
RECURSIVE Split(_, _)
\* String.prototype.split(sep) for a one-character separator.
Split(text, sep) ==
  LET cut == IndexOf(text, <<sep>>)
  IN  IF cut = -1 THEN <<text>>
      ELSE <<SubSeq(text, 1, cut)>> \o Split(From(text, cut + 2), sep)

\* Array.prototype.join(sep)
Join(parts, sep) ==
  Flatten([k \in 1..Len(parts) |-> (IF k > 1 THEN <<sep>> ELSE <<>>) \o parts[k]])

\* Array.prototype.slice(a, b) for 0 <= a
Slice(list, a, b) ==
  LET hi == IF b > Len(list) THEN Len(list) ELSE b
  IN  IF a >= hi THEN <<>> ELSE SubSeq(list, a + 1, hi)

\* The 0-based positions of the parentheses that sigLine.match(/\(([^)]*)\)/)
\* matches: the first "(" that has a ")" after it, and the first ")" after it.
\* -1 when there is no match.
ParenOpen(line) ==
  LET opens == {i \in 1..Len(line) :
                  line[i] = "(" /\ \E j \in (i + 1)..Len(line) : line[j] = ")"}
  IN  IF opens = {} THEN -1 ELSE (CHOOSE i \in opens : \A j \in opens : i <= j) - 1

ParenClose(line) ==
  LET closes == {j \in (ParenOpen(line) + 2)..Len(line) : line[j] = ")"}
  IN  (CHOOSE j \in closes : \A k \in closes : j <= k) - 1

\* paramMatch[1].split(',').map(p => p.trim().match(/^(\w+)/)).filter(Boolean)
ParameterNames(line) ==
  LET inner == Substring(line, ParenOpen(line) + 1, ParenClose(line))
      parts == Split(inner, ",")
      names == [k \in 1..Len(parts) |->
                  SubSeq(Trim(parts[k]), 1, RunLength(Trim(parts[k]), WordChars))]
      Named(name) == name # <<>>
  IN  SelectSeq(names, Named)

\* new RegExp(`\\b${word}\\b`).test(text)
WholeWordIn(word, text) ==
  \E i \in 0..(Len(text) - Len(word)) :
    /\ MatchesAt(text, word, i)
    /\ i = 0 \/ text[i] \notin WordChars
    /\ i + Len(word) = Len(text) \/ text[i + Len(word) + 1] \notin WordChars

SelfNames == {<<"s", "e", "l", "f">>, <<"t", "h", "i", "s">>, <<"c", "l", "s">>}

\* The lines of the file of a symbol; <<>> when fileContents has no text for it.
LinesOf(p, sym) ==
  IF sym.file \in DOMAIN p.fileContents /\ p.fileContents[sym.file] # <<>>
    THEN Split(p.fileContents[sym.file], "\n")
  ELSE <<>>

\* lines.slice(startLine + 1, endLine + 1).join('\n')
BodyLines(lines, sym) ==
  LET last == Len(lines) - 1
      endLine == IF sym.endLine < last THEN sym.endLine ELSE last
  IN  Join(Slice(lines, sym.line + 1, endLine + 1), "\n")

DeadParametersOf(p, sym) ==
  LET lines == LinesOf(p, sym)
      sigLine == IF sym.line < Len(lines) THEN lines[sym.line + 1] ELSE <<>>
  IN  IF sym.kindName \notin {"function", "method"} \/ lines = <<>> \/ ParenOpen(sigLine) = -1
        THEN <<>>
      ELSE LET params == ParameterNames(sigLine)
               Dead(k) == /\ params[k] \notin SelfNames
                          /\ ~WholeWordIn(params[k], BodyLines(lines, sym))
               idx == Filtered(Len(params), Dead)
           IN  [k \in 1..Len(idx) |->
                  [functionName |-> sym.fullName, parameterName |-> params[idx[k]],
                   file |-> sym.file, line |-> sym.line + 1]]

DeadParameters(p) ==
  Flatten([i \in 1..Len(p.allSymbols) |-> DeadParametersOf(p, p.allSymbols[i])])

\* The declarations tried for function f: the body on the line of the
\* parameter list, on the next line, and on both.
DeclarationsTried ==
  { <<"f", "(", "x", ")", "{", "x", "}">>,
    <<"f", "(", "x", ")", "{", "\n", "x", "}">>,
    <<"f", "(", "x", ")", "{", "\n", "x", "y", "}">>,
    <<"f", "(", "x", ")", "{", "\n", "}">>,
    <<"f", "(", "x", ",", " ", "y", ")", "{", "y", "\n", "x", "}">>,
    <<"f", "(", "s", "e", "l", "f", ",", "x", ")", "{", "\n", "x", "}">>,
    <<"f", "(", "t", "h", "i", "s", ")", "{", "\n", "}">>,
    <<"f", "(", "c", "l", "s", ",", "x", ")", "{", "\n", "}">> }

LineCount == [text \in DeclarationsTried |-> Len(Split(text, "\n"))]

DeadParameterProjects ==
  {Project("dead-params",
           <<SymbolInfo(<<"f">>, <<"f">>, kind, "f1", 0, LineCount[text] - 1)>>,
           <<<<>>>>, <<Null>>, [f \in {"f1"} |-> text], types) :
     text \in DeclarationsTried, kind \in {6, 12, 5}, types \in {{"all"}, {"dead-params"}}}

\* ---- Hotspots ----
\* const HOTSPOT_THRESHOLD = 10
HOTSPOT_THRESHOLD == 10

ReferenceCount(finding) == finding.referenceCount

Hotspots(p) ==
  LET Hot(i) ==
        /\ p.allSymbols[i].kindName \in {"function", "class", "interface"}
        /\ ~StartsWith(p.allSymbols[i].name, "_")
        /\ Len(p.references[i]) >= HOTSPOT_THRESHOLD
      idx == Filtered(Len(p.allSymbols), Hot)
      found == [k \in 1..Len(idx) |->
                  LET sym == p.allSymbols[idx[k]]
                      refs == p.references[idx[k]]
                  IN  [name |-> sym.fullName, kind |-> sym.kindName, file |-> sym.file,
                       line |-> sym.line + 1, referenceCount |-> Len(refs),
                       referencingFiles |-> Distinct([r \in 1..Len(refs) |-> refs[r].file])]]
  IN  SortDescending(found, ReferenceCount)

\* A references result of n locations in the files f2 and f3.
ReferenceList(n) == [r \in 1..n |-> Location(IF r % 2 = 0 THEN "f2" ELSE "f3")]

\* Two symbols of file f1: one of any kind, public or private, and function h,
\* each referenced from just below to just above the threshold.
HotspotProjects ==
  {Project("hotspots",
           <<SymbolInfo(name, name, kind, "f1", 0, 0),
             SymbolInfo(<<"h">>, <<"h">>, 12, "f1", 1, 1)>>,
           <<ReferenceList(n1), ReferenceList(n2)>>, <<Null, Null>>, NoContents,
           {"hotspots"}) :
     name \in {<<"f">>, <<"_", "g">>}, kind \in SymbolKindsTried,
     n1 \in {0, 9, 10, 11}, n2 \in {9, 10, 11}}

\* ---- Similar types ----
\* The property name that line.match(/^\s*(\w+)\s*[?]?\s*:/) captures, <<>>
\* when the line does not match.
SkipSpace(text) == From(text, RunLength(text, SpaceChars) + 1)

\* [?]?
SkipMark(text) == IF text # <<>> /\ text[1] = "?" THEN Tail(text) ELSE text

\* (\w+)\s*[?]?\s*: at the start of text: the word, <<>> without a match.
WordBeforeColon(text, w) ==
  LET after == SkipSpace(SkipMark(SkipSpace(From(text, w + 1))))
  IN  IF w > 0 /\ after # <<>> /\ after[1] = ":" THEN SubSeq(text, 1, w) ELSE <<>>

WordAtStart(text) == WordBeforeColon(text, RunLength(text, WordChars))

PropertyOf(line) == WordAtStart(SkipSpace(line))

\* (line.match(/{/g) || []).length
CountOf(line, char) == Cardinality({k \in 1..Len(line) : line[k] = char})

\* for (let i = startLine; i < lines.length && i < startLine + 50; i++)
PropertyWindow == 50

\* if (started && braceCount > 0 && propMatch) properties.push(propMatch[1])
PropertiesWith(properties, name, inside) ==
  IF inside /\ name # <<>> THEN Append(properties, name) ELSE properties

RECURSIVE PropertyLoop(_, _, _, _, _, _)
\* One iteration once started and braceCount are updated (lines 468-476):
\* the push, then the break or the next iteration.
PropertyStep(lines, startLine, i, braceCount, started, properties) ==
  IF started /\ braceCount = 0 THEN properties
  ELSE PropertyLoop(lines, startLine, i + 1, braceCount, started,
                    PropertiesWith(properties, PropertyOf(lines[i + 1]),
                                   started /\ braceCount > 0))

\* The loop of extractTypeProperties from line i (0-based) on.
PropertyLoop(lines, startLine, i, braceCount, started, properties) ==
  IF ~(i < Len(lines) /\ i < startLine + PropertyWindow) THEN properties
  ELSE PropertyStep(lines, startLine, i,
                    braceCount + CountOf(lines[i + 1], "{") - CountOf(lines[i + 1], "}"),
                    started \/ CountOf(lines[i + 1], "{") > 0,
                    properties)

\* extractTypeProperties(content, startLine, name)
extractTypeProperties(content, startLine) ==
  PropertyLoop(Split(content, "\n"), startLine, startLine, 0, FALSE, <<>>)

\* calculateSimilarity(props1, props2): the shared names and the similarity
\* as the fraction num / den (0 / 1 when both lists are empty).
calculateSimilarity(props1, props2) ==
  LET InSecond(name) == name \in Elements(props2)
      shared == SelectSeq(props1, InSecond)
      union == Elements(props1) \cup Elements(props2)
  IN  [shared |-> shared,
       num |-> IF union # {} THEN Len(shared) ELSE 0,
       den |-> IF union # {} THEN Cardinality(union) ELSE 1]

\* Math.round(num / den * 100)
RoundPercent(num, den) == (200 * num + den) \div (2 * den)

\* const SIMILARITY_THRESHOLD = 0.5, as the fraction 1 / 2
SIMILARITY_THRESHOLD == [num |-> 1, den |-> 2]

Similarity(finding) == finding.similarity

\* The types the detector compares: classes and interfaces with two or more
\* extracted properties.
ComparedTypes(p) ==
  LET PropertiesAt(i) ==
        IF p.allSymbols[i].file \in DOMAIN p.fileContents
          THEN extractTypeProperties(p.fileContents[p.allSymbols[i].file], p.allSymbols[i].line)
        ELSE <<>>
      Compared(i) ==
        /\ p.allSymbols[i].kindName \in {"interface", "class"}
        /\ p.allSymbols[i].file \in DOMAIN p.fileContents
        /\ p.fileContents[p.allSymbols[i].file] # <<>>
        /\ Len(PropertiesAt(i)) >= 2
      idx == Filtered(Len(p.allSymbols), Compared)
  IN  [k \in 1..Len(idx) |->
         LET sym == p.allSymbols[idx[k]]
         IN  [name |-> sym.fullName, file |-> sym.file, line |-> sym.line + 1,
              properties |-> PropertiesAt(idx[k])]]

\* The pairs (i, j), i < j, in the order of the two nested loops.
IndexPairs(n) == Flatten([i \in 1..n |-> [d \in 1..(n - i) |-> <<i, i + d>>]])

\* The pairs the detector examines: different names, and the first pair with
\* these two names (processedPairs).
ExaminedPairs(types) ==
  LET pairs == IndexPairs(Len(types))
      Named(k) == {types[pairs[k][1]].name, types[pairs[k][2]].name}
      Differ(k) == types[pairs[k][1]].name # types[pairs[k][2]].name
      Examined(k) == /\ Differ(k)
                     /\ \A j \in 1..(k - 1) : ~(Differ(j) /\ Named(j) = Named(k))
      idx == Filtered(Len(pairs), Examined)
  IN  [k \in 1..Len(idx) |-> pairs[idx[k]]]

\* result.similarTypes.push({types: [t1, t2], sharedProperties, similarity})
SimilarFinding(t1, t2, measured) ==
  [types |-> <<t1, t2>>, sharedProperties |-> measured.shared,
   similarity |-> RoundPercent(measured.num, measured.den)]

\* similarity >= SIMILARITY_THRESHOLD && shared.length >= 2
IsSimilar(measured) ==
  /\ measured.num * SIMILARITY_THRESHOLD.den >= SIMILARITY_THRESHOLD.num * measured.den
  /\ Len(measured.shared) >= 2

\* The findings among the examined pairs, in the order found.
SimilarAmong(types, pairs) ==
  LET Measured(k) == calculateSimilarity(types[pairs[k][1]].properties,
                                         types[pairs[k][2]].properties)
      Similar(k) == IsSimilar(Measured(k))
      At(k) == SimilarFinding(types[pairs[k][1]], types[pairs[k][2]], Measured(k))
  IN  SelectedOf(Filtered(Len(pairs), Similar), At)

SimilarOf(types) == SortDescending(SimilarAmong(types, ExaminedPairs(types)), Similarity)

SimilarTypes(p) == SimilarOf(ComparedTypes(p))

Label == <<"l", "a", "b", "e", "l">>

Data == <<"d", "a", "t", "a">>

Extra == <<"e", "x", "t", "r", "a">>

\* A line that declares a property of type s.
PropertyLine(name) == <<" ">> \o name \o <<":", " ", "s">>

OpenLine(name) == name \o <<" ", "{">>

CloseLine == <<"}">>

\* The declarations tried, each with its name and its lines: interface a with
\* label and data; b with label, data and extra; class c with label, data and
\* a method that returns an object with the keys label and data; d with one
\* property; e with extra and kind.
TypesTried ==
  { [name |-> <<"a">>, kind |-> 11,
     lines |-> <<OpenLine(<<"a">>), PropertyLine(Label), PropertyLine(Data), CloseLine>>],
    [name |-> <<"b">>, kind |-> 11,
     lines |-> <<OpenLine(<<"b">>), PropertyLine(Label), PropertyLine(Data),
                 PropertyLine(Extra), CloseLine>>],
    [name |-> <<"c">>, kind |-> 5,
     lines |-> <<OpenLine(<<"c">>), PropertyLine(Label), PropertyLine(Data),
                 <<" ", "j", "(", ")", " ", "{">>,
                 <<" ", "r", "e", "t", "u", "r", "n", " ", "{">>,
                 PropertyLine(Label), PropertyLine(Data),
                 <<" ", "}">>, <<" ", "}">>, CloseLine>>],
    [name |-> <<"d">>, kind |-> 11,
     lines |-> <<OpenLine(<<"d">>), PropertyLine(Label), CloseLine>>],
    [name |-> <<"e">>, kind |-> 11,
     lines |-> <<OpenLine(<<"e">>), PropertyLine(Extra),
                 PropertyLine(<<"k", "i", "n", "d">>), CloseLine>>] }

\* The first line (0-based) of the k-th declaration of a file.
RECURSIVE FirstLine(_, _)
FirstLine(decls, k) == IF k = 1 THEN 0 ELSE FirstLine(decls, k - 1) + Len(decls[k - 1].lines)

\* The index entries and the text of a file that holds the declarations one
\* after another.
TypeSymbols(decls, file) ==
  [k \in 1..Len(decls) |->
     SymbolInfo(decls[k].name, decls[k].name, decls[k].kind, file,
                FirstLine(decls, k), FirstLine(decls, k) + Len(decls[k].lines) - 1)]

TypeContent(decls) == Join(Flatten([k \in 1..Len(decls) |-> decls[k].lines]), "\n")

\* One file that holds two or three different declarations.
SimilarTypeProjects ==
  {Project("similar-types", TypeSymbols(decls, "f1"),
           [k \in 1..Len(decls) |-> <<>>], [k \in 1..Len(decls) |-> Null],
           [f \in {"f1"} |-> TypeContent(decls)],
           {"similar-types"}) :
     decls \in {d \in (TypesTried \X TypesTried) \cup (TypesTried \X TypesTried \X TypesTried) :
                  \A i, j \in 1..Len(d) : i # j => d[i] # d[j]}}

\* ---- The detectors in the order of Phase 2 ----
TypeNamed(name) == CHOOSE decl \in TypesTried : decl.name = name

\* A project on which every ranked list gets findings with different keys:
\* X, Y and Z together in three files and X and Z in a fourth; X and Z of f1
\* referenced 10 and 11 times; the hover text of X known in two files and
\* that of Y in three; the types b, a and c in a fifth file.
RankedProject ==
  LET outlines == <<FlatOutline[<<FunctionX, FunctionY, ClassZ>>, "f1"],
                    FlatOutline[<<FunctionX, FunctionY, ClassZ>>, "f2"],
                    FlatOutline[<<FunctionX, FunctionY, ClassZ>>, "f3"],
                    FlatOutline[<<FunctionX, ClassZ>>, "f4"]>>
      decls == <<TypeNamed(<<"b">>), TypeNamed(<<"a">>), TypeNamed(<<"c">>)>>
      all == Flatten(outlines) \o TypeSymbols(decls, "f5")
      RefsAt(i) ==
        IF all[i].file = "f1" /\ all[i].name = <<"X">> THEN ReferenceList(10)
        ELSE IF all[i].file = "f1" /\ all[i].name = <<"Z">> THEN ReferenceList(11)
        ELSE <<>>
      HoverAt(i) ==
        IF all[i].name = <<"X">> /\ all[i].file \in {"f1", "f2"}
          THEN Render(Signature(<<"X">>, <<Param(<<"x">>, NumberType)>>, <<>>))
        ELSE IF all[i].name = <<"Y">>
          THEN Render(Signature(<<"Y">>, <<Param(<<"y">>, NumberType)>>, <<>>))
        ELSE Null
  IN  Project("ranked", all, [i \in 1..Len(all) |-> RefsAt(i)],
              [i \in 1..Len(all) |-> HoverAt(i)],
              [f \in {"f5"} |-> TypeContent(decls)], {"all"})

\* The declaration with another name (its first line is the one that names it).
Renamed(decl, name) == [decl EXCEPT !.name = name, !.lines[1] = OpenLine(name)]

\* Two files: f1 holds interface a (label, data), alone or after b or e; f2
\* holds another interface a, with label, data and extra.
SameNameProjects ==
  {Project("same-name", TypeSymbols(d1, "f1") \o TypeSymbols(d2, "f2"),
           [k \in 1..(Len(d1) + Len(d2)) |-> <<>>],
           [k \in 1..(Len(d1) + Len(d2)) |-> Null],
           [f \in {"f1", "f2"} |-> IF f = "f1" THEN TypeContent(d1) ELSE TypeContent(d2)],
           {"similar-types"}) :
     d1 \in {<<TypeNamed(<<"a">>)>>,
             <<TypeNamed(<<"b">>), TypeNamed(<<"a">>)>>,
             <<TypeNamed(<<"e">>), TypeNamed(<<"a">>)>>},
     d2 \in {<<Renamed(TypeNamed(<<"b">>), <<"a">>)>>}}

Projects ==
  UnusedProjects \cup SignatureProjects \cup CooccurrenceProjects
    \cup DeadParameterProjects \cup HotspotProjects \cup SimilarTypeProjects
    \cup SameNameProjects \cup {RankedProject}

DetectInit ==
  /\ impl = "engine"
  /\ Constructed
  /\ handlers = <<"returns">>
  /\ wire = <<>>
  /\ serverSent = <<>>
  /\ run = NoRun
  /\ codebase = NoCodebase
  /\ project \in Projects
  /\ analysisResult = FreshResult

\* if (runAll || analysisTypes.has('unused')) { ... }
AnalyzeUnused ==
  /\ project # NoProject
  /\ analysisResult.phase = 0
  /\ analysisResult' = [analysisResult EXCEPT !.phase = 1,
                              !.unusedSymbols = IF Selected(project, "unused")
                                                  THEN UnusedSymbols(project) ELSE @]
  /\ UNCHANGED <<sessionVars, run, codebase, project>>

\* The signatures detector emptying the list of the unused detector as well.
AnalyzeSignaturesResetting ==
  /\ analysisResult.phase = 1
  /\ analysisResult' = [analysisResult EXCEPT !.phase = 2,
                              !.unusedSymbols = <<>>,
                              !.signatureGroups = IF Selected(project, "signatures")
                                                    THEN SignatureGroups(project) ELSE @]
  /\ UNCHANGED <<sessionVars, run, codebase, project>>

\* if (runAll || analysisTypes.has('signatures')) { ... }
AnalyzeSignatures ==
  /\ analysisResult.phase = 1
  /\ analysisResult' = [analysisResult EXCEPT !.phase = 2,
                              !.signatureGroups = IF Selected(project, "signatures")
                                                    THEN SignatureGroups(project) ELSE @]
  /\ UNCHANGED <<sessionVars, run, codebase, project>>

\* if (runAll || analysisTypes.has('cooccurrence')) { ... }
AnalyzeCooccurrence ==
  /\ analysisResult.phase = 2
  /\ analysisResult' = [analysisResult EXCEPT !.phase = 3,
                              !.cooccurrenceGroups = IF Selected(project, "cooccurrence")
                                                       THEN CooccurrenceGroups(project) ELSE @]
  /\ UNCHANGED <<sessionVars, run, codebase, project>>

\* if (runAll || analysisTypes.has('dead-params')) { ... }
AnalyzeDeadParams ==
  /\ analysisResult.phase = 3
  /\ analysisResult' = [analysisResult EXCEPT !.phase = 4,
                              !.deadParameters = IF Selected(project, "dead-params")
                                                   THEN DeadParameters(project) ELSE @]
  /\ UNCHANGED <<sessionVars, run, codebase, project>>

\* if (runAll || analysisTypes.has('hotspots')) { ... }
AnalyzeHotspots ==
  /\ analysisResult.phase = 4
  /\ analysisResult' = [analysisResult EXCEPT !.phase = 5,
                              !.hotspots = IF Selected(project, "hotspots")
                                             THEN Hotspots(project) ELSE @]
  /\ UNCHANGED <<sessionVars, run, codebase, project>>

\* if (runAll || analysisTypes.has('similar-types')) { ... }
AnalyzeSimilarTypes ==
  /\ analysisResult.phase = 5
  /\ analysisResult' = [analysisResult EXCEPT !.phase = 6,
                              !.similarTypes = IF Selected(project, "similar-types")
                                                 THEN SimilarTypes(project) ELSE @]
  /\ UNCHANGED <<sessionVars, run, codebase, project>>

DetectNext ==
  \/ AnalyzeUnused
  \/ AnalyzeSignatures
  \/ AnalyzeCooccurrence
  \/ AnalyzeDeadParams
  \/ AnalyzeHotspots
  \/ AnalyzeSimilarTypes

DetectSpec == DetectInit /\ [][DetectNext]_vars

\* The findings of a list that are about this symbol.
FindingsAbout(list, sym) ==
  {k \in 1..Len(list) :
     list[k].name = sym.name /\ list[k].file = sym.file /\ list[k].line = sym.line + 1}

\* The symbols the claim says the unused detector reports.
ExpectedUnused(p) ==
  {i \in 1..Len(p.allSymbols) :
     /\ p.allSymbols[i].kindName \in {"class", "function", "interface", "method"}
     /\ p.allSymbols[i].name[1] \notin {"_", "#"}
     /\ p.references[i] = <<>>}

\* C22: once the unused detector has run, its findings are one per symbol that
\* is a class, function, interface or method, has a name without a private
\* marker and has no reference, and none for any other symbol; the confidence
\* is high for a class or function and medium for a method or interface.
C22_UnusedExactly ==
  (analysisResult.phase >= 1 /\ Selected(project, "unused")) =>
    /\ Len(analysisResult.unusedSymbols) = Cardinality(ExpectedUnused(project))
    /\ \A i \in 1..Len(project.allSymbols) :
         LET sym == project.allSymbols[i]
             about == FindingsAbout(analysisResult.unusedSymbols, sym)
         IN  /\ Cardinality(about) = IF i \in ExpectedUnused(project) THEN 1 ELSE 0
             /\ \A k \in about :
                  analysisResult.unusedSymbols[k].confidence =
                    IF sym.kindName \in {"class", "function"} THEN "high" ELSE "medium"

\* f and g are functions, f has no reference and g has one from another file:
\* the one finding is f, with confidence high.
C22_Witness ==
  /\ analysisResult.phase >= 1
  /\ Len(project.allSymbols) = 2
  /\ project.allSymbols[1].name = <<"f">> /\ project.allSymbols[1].kindName = "function"
  /\ project.allSymbols[2].name = <<"g">> /\ project.allSymbols[2].kindName = "function"
  /\ project.references = <<<<>>, <<Location("f2")>>>>
  /\ Len(analysisResult.unusedSymbols) = 1
  /\ analysisResult.unusedSymbols[1].name = <<"f">>
  /\ analysisResult.unusedSymbols[1].confidence = "high"

\* The functions and methods of the index.
FunctionsOf(p) ==
  {i \in 1..Len(p.allSymbols) : p.allSymbols[i].kindName \in {"function", "method"}}

\* The signature a hover text was written from.
SignatureOf(text) == CHOOSE sig \in SignaturesTried : RenderedSignature[sig] = text

\* What is left of a signature without its own name and its parameter names:
\* the parameter types and the return annotation.
ShapeOf(text) ==
  LET sig == SignatureOf(text)
  IN  [types |-> [k \in 1..Len(sig.params) |-> sig.params[k].type], ret |-> sig.ret]

MemberOf(sym) == [name |-> sym.fullName, file |-> sym.file, line |-> sym.line + 1]

\* The groups the claim says are reported: the functions and methods of equal
\* shape, where there are two or more of them.
ExpectedSignatureGroups(p) ==
  LET ClassOf(i) == {MemberOf(p.allSymbols[j]) :
                       j \in {j \in FunctionsOf(p) :
                                ShapeOf(p.hovers[j]) = ShapeOf(p.hovers[i])}}
  IN  {ClassOf(i) : i \in {i \in FunctionsOf(p) : Cardinality(ClassOf(i)) >= 2}}

\* C23: once the signatures detector has run on functions with a signature
\* text, the groups reported are exactly the sets of two or more functions
\* and methods whose signatures are equal up to the function's own name and
\* the parameter names: a(x: number) and b(y: number) are in one group,
\* c(z: number): void is not in it.
C23_SignatureGroups ==
  (/\ analysisResult.phase >= 2
   /\ project.kind = "signatures"
   /\ Len(project.allSymbols) = 3) =>
    /\ {Elements(analysisResult.signatureGroups[g].functions) :
          g \in 1..Len(analysisResult.signatureGroups)} = ExpectedSignatureGroups(project)
    /\ Len(analysisResult.signatureGroups) = Cardinality(ExpectedSignatureGroups(project))

\* The names of the top-level functions, classes and interfaces of a file.
TopLevelNames(p, file) ==
  {p.allSymbols[i].name :
     i \in {i \in 1..Len(p.allSymbols) :
              /\ p.allSymbols[i].file = file
              /\ p.allSymbols[i].kindName \in {"function", "class", "interface"}
              /\ p.allSymbols[i].fullName = p.allSymbols[i].name}}

FilesOfIndex(p) == {p.allSymbols[i].file : i \in 1..Len(p.allSymbols)}

\* The files in which both names are declared at the top level.
SharedFiles(p, a, b) ==
  {file \in FilesOfIndex(p) : a \in TopLevelNames(p, file) /\ b \in TopLevelNames(p, file)}

ExpectedPairs(p) ==
  LET names == UNION {TopLevelNames(p, file) : file \in FilesOfIndex(p)}
  IN  {pair \in {{a, b} : a \in names, b \in names} :
         /\ Cardinality(pair) = 2
         /\ \E a \in pair, b \in pair :
              a # b /\ Cardinality(SharedFiles(p, a, b)) >= 3}

\* C24: once the co-occurrence detector has run, it has reported each
\* unordered pair of top-level function/class/interface names that share three
\* or more files, once, with exactly the shared files, and no other pair.
C24_CooccurrencePairs ==
  (analysisResult.phase >= 3 /\ Selected(project, "cooccurrence")) =>
    /\ Len(analysisResult.cooccurrenceGroups) = Cardinality(ExpectedPairs(project))
    /\ \A g \in 1..Len(analysisResult.cooccurrenceGroups) :
         LET group == analysisResult.cooccurrenceGroups[g]
             shared == SharedFiles(project, group.symbols[1], group.symbols[2])
         IN  /\ Elements(group.symbols) \in ExpectedPairs(project)
             /\ Elements(group.files) = shared
             /\ Len(group.files) = Cardinality(shared)

\* The text of the declaration of a symbol after its parameter list: from the
\* character after the closing parenthesis to the end of the range.
DeclaredBody(p, sym) ==
  LET lines == LinesOf(p, sym)
      text == Join(Slice(lines, sym.line, sym.endLine + 1), "\n")
  IN  From(text, ParenClose(lines[sym.line + 1]) + 2)

\* The parameters the claim says are reported for a symbol.
ExpectedDead(p, sym) ==
  IF \/ sym.kindName \notin {"function", "method"}
     \/ LinesOf(p, sym) = <<>>
     \/ ParenOpen(LinesOf(p, sym)[sym.line + 1]) = -1
    THEN {}
  ELSE {name \in Elements(ParameterNames(LinesOf(p, sym)[sym.line + 1])) :
          name \notin SelfNames /\ ~WholeWordIn(name, DeclaredBody(p, sym))}

\* C25: once the dead-parameters detector has run, the parameters reported
\* for a function or method are exactly those that are not self, this or cls
\* and do not occur as a whole word in the text of the declaration after the
\* parameter list, the part of the body on the first line included.
C25_DeadParameters ==
  (analysisResult.phase >= 4 /\ Selected(project, "dead-params")) =>
    \A i \in 1..Len(project.allSymbols) :
      LET sym == project.allSymbols[i]
          about == {k \in 1..Len(analysisResult.deadParameters) :
                      /\ analysisResult.deadParameters[k].functionName = sym.fullName
                      /\ analysisResult.deadParameters[k].file = sym.file}
      IN  /\ {analysisResult.deadParameters[k].parameterName : k \in about} = ExpectedDead(project, sym)
          /\ Cardinality(about) = Cardinality(ExpectedDead(project, sym))

\* The symbols the claim says the hotspots detector reports.
ExpectedHotspots(p) ==
  {i \in 1..Len(p.allSymbols) :
     /\ p.allSymbols[i].kindName \in {"function", "class", "interface"}
     /\ Len(p.references[i]) >= 10}

\* C26: once the hotspots detector has run, it has reported every function,
\* class or interface with 10 or more reference locations and no other
\* symbol; referenceCount is the number of locations and referencingFiles
\* holds each file of the locations once.
C26_Hotspots ==
  (analysisResult.phase >= 5 /\ Selected(project, "hotspots")) =>
    /\ Len(analysisResult.hotspots) = Cardinality(ExpectedHotspots(project))
    /\ \A i \in 1..Len(project.allSymbols) :
         LET sym == project.allSymbols[i]
             refs == project.references[i]
             files == {refs[r].file : r \in 1..Len(refs)}
             about == FindingsAbout(analysisResult.hotspots, sym)
         IN  /\ Cardinality(about) = IF i \in ExpectedHotspots(project) THEN 1 ELSE 0
             /\ \A k \in about :
                  /\ analysisResult.hotspots[k].referenceCount = Len(refs)
                  /\ Elements(analysisResult.hotspots[k].referencingFiles) = files
                  /\ Len(analysisResult.hotspots[k].referencingFiles) = Cardinality(files)

\* C27: once the similar-types detector has run, every pair it examined is
\* reported exactly when the Jaccard value of the two property-name sets is
\* at least 1/2 and two or more names are shared; a reported pair carries
\* that Jaccard value (as a percentage, at most 100) and the shared names,
\* each once.
C27_JaccardSimilarity ==
  (analysisResult.phase >= 6 /\ Selected(project, "similar-types")) =>
    LET types == ComparedTypes(project)
        pairs == ExaminedPairs(types)
    IN  \A k \in 1..Len(pairs) :
          LET t1 == types[pairs[k][1]]
              t2 == types[pairs[k][2]]
              inter == Elements(t1.properties) \cap Elements(t2.properties)
              union == Elements(t1.properties) \cup Elements(t2.properties)
              about == {f \in 1..Len(analysisResult.similarTypes) :
                          analysisResult.similarTypes[f].types = <<t1, t2>>}
          IN  /\ Cardinality(about) =
                   IF 2 * Cardinality(inter) >= Cardinality(union) /\ Cardinality(inter) >= 2
                     THEN 1 ELSE 0
              /\ \A f \in about :
                   /\ analysisResult.similarTypes[f].similarity
                        = RoundPercent(Cardinality(inter), Cardinality(union))
                   /\ analysisResult.similarTypes[f].similarity <= 100
                   /\ Elements(analysisResult.similarTypes[f].sharedProperties) = inter
                   /\ Len(analysisResult.similarTypes[f].sharedProperties) = Cardinality(inter)

\* The keys of a list never increase from one entry to the next.
NonIncreasing(list, Key(_)) ==
  \A k \in 1..(Len(list) - 1) : Key(list[k]) >= Key(list[k + 1])

MemberCount(group) == Len(group.functions)

SharedFileCount(group) == Len(group.files)

\* C28: in the result that analyzeProject returns, the signature groups are
\* in non-increasing order of member count, the co-occurrence pairs of the
\* number of shared files, the hotspots of reference count and the
\* similar-type pairs of similarity.
C28_RankedLists ==
  analysisResult.phase = 6 =>
    /\ NonIncreasing(analysisResult.signatureGroups, MemberCount)
    /\ NonIncreasing(analysisResult.cooccurrenceGroups, SharedFileCount)
    /\ NonIncreasing(analysisResult.hotspots, ReferenceCount)
    /\ NonIncreasing(analysisResult.similarTypes, Similarity)

\* Every ranked list holds findings with different keys, and in each the entry
\* found last has the greatest key and stands first.
C28_Witness ==
  /\ analysisResult.phase = 6
  /\ project.kind = "ranked"
  /\ Len(analysisResult.signatureGroups) = 2
  /\ MemberCount(analysisResult.signatureGroups[1]) = 3 /\ MemberCount(analysisResult.signatureGroups[2]) = 2
  /\ Len(analysisResult.cooccurrenceGroups) = 3
  /\ analysisResult.cooccurrenceGroups[1].symbols = <<<<"X">>, <<"Z">>>>
  /\ SharedFileCount(analysisResult.cooccurrenceGroups[1]) = 4
  /\ SharedFileCount(analysisResult.cooccurrenceGroups[3]) = 3
  /\ Len(analysisResult.hotspots) = 2
  /\ analysisResult.hotspots[1].name = <<"Z">> /\ analysisResult.hotspots[1].referenceCount = 11
  /\ analysisResult.hotspots[2].name = <<"X">> /\ analysisResult.hotspots[2].referenceCount = 10
  /\ Len(analysisResult.similarTypes) = 3
  /\ analysisResult.similarTypes[1].similarity = 100
  /\ analysisResult.similarTypes[3].similarity = 67

\* ------------------------------------------------------------------------
\* analyzeProject(projectPath, language, analysisTypes): the run of the
\* engine, from client.start() to `return result`
\* ------------------------------------------------------------------------
\* Every file of the run taken for its first one.
RunUriFirst(f) == PlainUri

\* The files findFiles returned, by position, as URIs.
RunUri(f) == IF f = 1 THEN PlainUri ELSE OtherUri

\* A run before client.start(): the number of files findFiles returns, the
\* analysis selected, the functions in the outline of each file, and the
\* file fs.readFileSync cannot read (0: every file is readable).
RunOf(files, analysis, perFile, unreadable) ==
  [pc |-> "start", file |-> 0, id |-> 0, files |-> files, analysis |-> analysis,
   perFile |-> perFile, unreadable |-> unreadable, symbols |-> 0,
   answers |-> <<>>, findings |-> <<>>]

\* The runs tried: two files with an analysis that asks the server nothing
\* more, all readable or one of them not; one file of one function with the
\* unused-symbols or the hotspots analysis; one file of two functions with
\* the signatures analysis.
RunsTried ==
  {RunOf(2, "cooccurrence", 1, u) : u \in 0..2}
    \cup {RunOf(1, a, 1, 0) : a \in {"unused", "hotspots"}}
    \cup {RunOf(1, "signatures", 2, 0)}

\* analyzeProject is called; the client is constructed and has no listener.
RunInit ==
  /\ impl = "engine"
  /\ Constructed
  /\ handlers = <<>>
  /\ wire = <<>>
  /\ serverSent = <<>>
  /\ run \in RunsTried
  /\ codebase = NoCodebase
  /\ project = NoProject
  /\ analysisResult = NoResult

\* What no step of analyzeProject itself changes.
RunUntouched ==
  <<impl, process, child, exitEmitted, initialized, messageBuffer, resolvedBy, wire,
    serverSent, dispatched, notifLog, settledAt, resumedAt, uncaught, discards,
    startPc, graph, codebase, project, analysisResult>>

\* After `await client.start()`.  A rejected start() leaves analyzeProject;
\* main() catches it, prints the error and calls process.exit(1).  Otherwise
\* the listener is registered and the loop reads the first file (an
\* exception of readFileSync leaves analyzeProject the same way), opens it
\* and waits 30 ms.
RunAfterStart ==
  /\ run.pc = "start"
  /\ startPc \in {"ready", "failed"}
  /\ IF startPc = "failed"
       THEN /\ run' = [run EXCEPT !.pc = "aborted"]
            /\ UNCHANGED <<stdin, written, handlers, docOps>>
       ELSE IF run.unreadable = 1
         THEN /\ handlers' = Append(handlers, "returns")
              /\ run' = [run EXCEPT !.pc = "aborted"]
              /\ UNCHANGED <<stdin, written, docOps>>
       ELSE /\ handlers' = Append(handlers, "returns")
            /\ SendNotification(DidOpen, RunUri(1))
            /\ docOps' = Append(docOps, [op |-> "open", uri |-> RunUri(1)])
            /\ run' = [run EXCEPT !.pc = "pause", !.file = 1]
  /\ UNCHANGED RunUntouched
  /\ UNCHANGED <<nextRequestId, pendingRequests, timers, outcome, returned,
                 shutdownPc, shutdownId>>

\* The 30 ms have passed: client.documentSymbols(uri) up to its await.
RunOutline ==
  /\ ~ContinuationDue
  /\ run.pc = "pause"
  /\ nextRequestId \in Ids
  /\ SendRequest(DocumentSymbols, RunUri(run.file))
  /\ returned' = [returned EXCEPT ![nextRequestId] = Waiting]
  /\ run' = [run EXCEPT !.pc = "outline", !.id = nextRequestId]
  /\ UNCHANGED RunUntouched
  /\ UNCHANGED <<handlers, shutdownPc, shutdownId, docOps>>

\* The symbols flattenSymbols adds for what documentSymbols returned: the
\* outline the server answers with holds the functions of the file; [] holds
\* none.
SymbolsIn(symbols) == IF symbols = EmptyList THEN 0 ELSE run.perFile

\* After `await client.documentSymbols(uri)`: the symbols are collected and
\* the loop reads and opens the next file, or it ends and the 500 ms wait
\* begins.
RunOutlineContinue ==
  /\ run.pc = "outline"
  /\ returned[run.id].state = "returned"
  /\ LET found == SymbolsIn(returned[run.id].value) IN
     IF run.file < run.files /\ run.unreadable = run.file + 1
       THEN /\ run' = [run EXCEPT !.pc = "aborted", !.id = 0, !.symbols = @ + found]
            /\ UNCHANGED <<stdin, written, docOps>>
     ELSE IF run.file < run.files
       THEN /\ SendNotification(DidOpen, RunUri(run.file + 1))
            /\ docOps' = Append(docOps, [op |-> "open", uri |-> RunUri(run.file + 1)])
            /\ run' = [run EXCEPT !.pc = "pause", !.file = @ + 1, !.id = 0,
                                  !.symbols = @ + found]
       ELSE /\ run' = [run EXCEPT !.pc = "settle", !.id = 0, !.symbols = @ + found]
            /\ UNCHANGED <<stdin, written, docOps>>
  /\ UNCHANGED RunUntouched
  /\ UNCHANGED <<handlers, nextRequestId, pendingRequests, timers, outcome, returned,
                 shutdownPc, shutdownId>>

\* The analyses that call the facade for every symbol, and the request the
\* facade method sends: client.hover for the signatures, client.findReferences
\* for the unused symbols and the hotspots.
AsksServer(analysis) == analysis \in {"unused", "signatures", "hotspots"}

QueryMethod(analysis) == IF analysis = "signatures" THEN Hover ELSE References

\* The names of the functions of the outline.
RunSymbolNames == <<<<"f">>, <<"g">>>>

\* The array a references answer is: one location per character, [] for the
\* empty list of the facade.
RefsOf(value) ==
  IF value = EmptyList THEN <<>> ELSE [k \in 1..Len(value) |-> Location(<<value[k]>>)]

\* What the detectors of the run work on: the collected functions, and per
\* function the answer the facade gave for it.
RunProject(answers) ==
  Project("run",
          [k \in 1..Len(answers) |-> TopSymbol(RunSymbolNames[k], 12, "f1")],
          [k \in 1..Len(answers) |->
             IF run.analysis = "signatures" THEN <<>> ELSE RefsOf(answers[k])],
          [k \in 1..Len(answers) |->
             IF run.analysis = "signatures" THEN answers[k] ELSE Null],
          NoContents, {run.analysis})

\* The findings list the selected analysis fills from these answers.
RunFindings(answers) ==
  CASE run.analysis = "unused" -> UnusedSymbols(RunProject(answers))
    [] run.analysis = "signatures" -> SignatureGroups(RunProject(answers))
    [] run.analysis = "hotspots" -> Hotspots(RunProject(answers))
    [] OTHER -> <<>>

\* Cleanup and the return: closeDocument for every file, then shutdown() up
\* to its await (the client is initialized, so the shutdown request is sent).
Cleanup(answers) ==
  LET closes == [f \in 1..run.files |-> WithParams(Notification(DidClose), RunUri(f))]
      request == WithParams(Request(nextRequestId, ShutdownMethod), NoParams)
  IN  /\ nextRequestId \in Ids
      /\ stdin' = stdin \o closes \o <<request>>
      /\ written' = written \o [f \in 1..run.files |-> EncodedClientMessage[closes[f]]]
                            \o <<EncodedClientMessage[request]>>
      /\ docOps' = docOps \o [f \in 1..run.files |-> [op |-> "close", uri |-> RunUri(f)]]
      /\ nextRequestId' = nextRequestId + 1
      /\ pendingRequests' = pendingRequests \cup {nextRequestId}
      /\ timers' = timers \cup {nextRequestId}
      /\ outcome' = [outcome EXCEPT ![nextRequestId] = Pending]
      /\ shutdownId' = nextRequestId
      /\ shutdownPc' = "await"
      /\ run' = [run EXCEPT !.pc = "shutdown", !.id = 0, !.answers = answers,
                            !.findings = RunFindings(answers)]

\* The facade call of Phase 2 for the next symbol, up to its await.
RunQuery(answers) ==
  /\ nextRequestId \in Ids
  /\ SendRequest(QueryMethod(run.analysis), RunUri(1))
  /\ returned' = [returned EXCEPT ![nextRequestId] = Waiting]
  /\ run' = [run EXCEPT !.pc = "references", !.id = nextRequestId, !.answers = answers]
  /\ UNCHANGED <<shutdownPc, shutdownId, docOps>>

\* The 500 ms have passed: the diagnostics are collected and Phase 2 runs.
\* An analysis that asks the server calls the facade for the first collected
\* symbol; the other analysis works on what was collected.
RunAnalyze ==
  /\ ~ContinuationDue
  /\ run.pc = "settle"
  /\ IF AsksServer(run.analysis) /\ run.symbols > 0
       THEN RunQuery(<<>>)
       ELSE /\ Cleanup(<<>>)
            /\ UNCHANGED returned
  /\ UNCHANGED RunUntouched
  /\ UNCHANGED handlers

\* After `await client.findReferences(...)` or `await client.hover(...)`: the
\* answer is used, and the loop calls the facade for the next symbol or ends
\* (the findings are complete); then the cleanup.
RunReferencesContinue ==
  /\ run.pc = "references"
  /\ returned[run.id].state = "returned"
  /\ IF Len(run.answers) + 1 < run.symbols
       THEN RunQuery(Append(run.answers, returned[run.id].value))
       ELSE /\ Cleanup(Append(run.answers, returned[run.id].value))
            /\ UNCHANGED returned
  /\ UNCHANGED RunUntouched
  /\ UNCHANGED handlers

\* After `await client.shutdown()`: return result.
RunReturn ==
  /\ run.pc = "shutdown"
  /\ shutdownPc = "done"
  /\ run' = [run EXCEPT !.pc = "returned"]
  /\ UNCHANGED RunUntouched
  /\ UNCHANGED <<handlers, stdin, written, nextRequestId, pendingRequests, timers,
                 outcome, returned, shutdownPc, shutdownId, docOps>>

\* A references answer of as many locations as make a hotspot.
ManyRefs == [k \in 1..HOTSPOT_THRESHOLD |-> "u"]

EncodedMany == [i \in Ids |-> Encode(Response(i, ManyRefs))]

\* The server answers a references request with that list.
ServerReplyMany ==
  /\ ~ContinuationDue
  /\ child = "running"
  /\ Len(wire) < MaxChunks
  /\ \E k \in Unanswered :
       /\ stdin[k].method = References
       /\ serverSent' = Append(serverSent, Response(stdin[k].id, ManyRefs))
       /\ wire' = Append(wire, EncodedMany[stdin[k].id])
  /\ UNCHANGED helperVars
  /\ UNCHANGED <<impl, process, child, exitEmitted, initialized, messageBuffer,
                 nextRequestId, pendingRequests, timers, outcome, resolvedBy,
                 stdin, written, dispatched, notifLog, handlers, settledAt,
                 resumedAt, uncaught, discards, returned, startPc, shutdownPc,
                 shutdownId, docOps, graph>>

\* The callbacks of the run that the event loop runs without new input:
\* continuations of settled awaits and timer callbacks.
RunStep ==
  \/ Start
  \/ StartContinue
  \/ RunAfterStart
  \/ RunOutline
  \/ \E id \in Ids : QueryContinue(id)
  \/ RunOutlineContinue
  \/ RunAnalyze
  \/ RunReferencesContinue
  \/ ShutdownContinue
  \/ RunReturn
  \/ \E id \in Ids : TimerFire(id)

RunNext ==
  \/ RunStep
  \/ ChildExit
  \/ \E m \in AllReplies : ServerReply(m)
  \/ ServerReplyMany
  \/ \E k \in 1..MaxChunks : Deliver(k)

RunSpec == RunInit /\ [][RunNext]_vars

\* Timers expire and ready continuations run.
RunFairSpec == RunSpec /\ WF_vars(RunStep)

\* The child has ended while analyzeProject was still collecting or analyzing.
KilledMidRun ==
  /\ child = "exited"
  /\ run.pc \in {"start", "pause", "outline", "settle", "references"}

\* C21: when the child process is killed while a run is in progress, the run
\* ends by aborting with a fatal diagnostic; it neither hangs nor returns
\* its result as a normal run does.
C21_KilledRunAborts == KilledMidRun ~> (run.pc = "aborted")

\* C30: during a run at most one document is open at a time, and no
\* document is open any more once the run has moved from collecting to
\* analyzing.
C30_OneDocumentOpen ==
  /\ Cardinality(OpenUris) <= 1
  /\ run.pc = "references" => OpenUris = {}

\* ------------------------------------------------------------------------
\* analyzeCodebase(client, projectPath, filePattern) of lsp_operations.ts,
\* called with a started client of lsp_client.ts
\* ------------------------------------------------------------------------
\* files.length: the files findFiles returned are RunUri(1) and RunUri(2).
CodebaseFiles == 2

\* The caller has constructed the client and registered no listener;
\* it calls start() and then analyzeCodebase.
CodebaseInit ==
  /\ impl = "library"
  /\ Constructed
  /\ handlers = <<>>
  /\ wire = <<>>
  /\ serverSent = <<>>
  /\ run = NoRun
  /\ codebase = [NoCodebase EXCEPT !.pc = "idle"]
  /\ project = NoProject
  /\ analysisResult = NoResult

\* What no step of analyzeCodebase itself changes.
CodebaseUntouched ==
  <<impl, process, child, exitEmitted, initialized, messageBuffer, resolvedBy, wire,
    serverSent, dispatched, notifLog, settledAt, resumedAt, uncaught, discards,
    startPc, shutdownPc, shutdownId, graph, run, project, analysisResult>>

\* analyzeCodebase is called: the analysis object is created, the loop opens
\* the first file and waits 100 ms.
CodebaseCall ==
  /\ ~ContinuationDue
  /\ codebase.pc = "idle"
  /\ startPc = "ready"
  /\ process = "child"
  /\ SendNotification(DidOpen, RunUri(1))
  /\ docOps' = Append(docOps, [op |-> "open", uri |-> RunUri(1)])
  /\ codebase' = [codebase EXCEPT !.pc = "pause", !.file = 1]
  /\ UNCHANGED CodebaseUntouched
  /\ UNCHANGED <<handlers, nextRequestId, pendingRequests, timers, outcome, returned>>

\* The 100 ms have passed: client.documentSymbols(uri) up to its await.
CodebaseOutline ==
  /\ ~ContinuationDue
  /\ codebase.pc = "pause"
  /\ process = "child"
  /\ nextRequestId \in Ids
  /\ SendRequest(DocumentSymbols, RunUri(codebase.file))
  /\ returned' = [returned EXCEPT ![nextRequestId] = Waiting]
  /\ codebase' = [codebase EXCEPT !.pc = "outline", !.id = nextRequestId]
  /\ UNCHANGED CodebaseUntouched
  /\ UNCHANGED <<handlers, docOps>>

\* After the try/catch around `await client.documentSymbols(uri)`: the file
\* is closed; then the next file is opened, or the loop ends, the listener
\* is registered and the analysis is returned.
CodebaseOutlineContinue ==
  /\ codebase.pc = "outline"
  /\ returned[codebase.id].state \in {"returned", "thrown"}
  /\ LET close == WithParams(Notification(DidClose), RunUri(codebase.file))
         open == WithParams(Notification(DidOpen), RunUri(codebase.file + 1))
     IN  IF codebase.file < CodebaseFiles
           THEN /\ stdin' = stdin \o <<close, open>>
                /\ written' = written \o <<EncodedClientMessage[close],
                                           EncodedClientMessage[open]>>
                /\ docOps' = docOps \o <<[op |-> "close", uri |-> RunUri(codebase.file)],
                                         [op |-> "open", uri |-> RunUri(codebase.file + 1)]>>
                /\ codebase' = [codebase EXCEPT !.pc = "pause", !.file = @ + 1, !.id = 0]
                /\ UNCHANGED handlers
           ELSE /\ Write(close)
                /\ docOps' = Append(docOps, [op |-> "close", uri |-> RunUri(codebase.file)])
                /\ handlers' = Append(handlers, "returns")
                /\ codebase' = [codebase EXCEPT !.pc = "returned", !.id = 0,
                                                !.listener = Len(handlers) + 1]
  /\ UNCHANGED CodebaseUntouched
  /\ UNCHANGED <<nextRequestId, pendingRequests, timers, outcome, returned>>

\* getCompletions(client, filePath, position) is called: the file is opened
\* and client.completion(uri, position) runs up to its await.
CompletionsCall ==
  /\ ~ContinuationDue
  /\ codebase.pc = "idle"
  /\ startPc = "ready"
  /\ process = "child"
  /\ nextRequestId \in Ids
  /\ LET open == WithParams(Notification(DidOpen), RunUri(1))
         request == WithParams(Request(nextRequestId, Completion), RunUri(1))
     IN  /\ stdin' = stdin \o <<open, request>>
         /\ written' = written \o <<EncodedClientMessage[open], EncodedClientMessage[request]>>
  /\ docOps' = Append(docOps, [op |-> "open", uri |-> RunUri(1)])
  /\ nextRequestId' = nextRequestId + 1
  /\ pendingRequests' = pendingRequests \cup {nextRequestId}
  /\ outcome' = [outcome EXCEPT ![nextRequestId] = Pending]
  /\ returned' = [returned EXCEPT ![nextRequestId] = Waiting]
  /\ codebase' = [codebase EXCEPT !.pc = "completing", !.file = 1, !.id = nextRequestId]
  /\ UNCHANGED CodebaseUntouched
  /\ UNCHANGED <<handlers, timers>>

\* After `await client.completion(uri, position)`: the document is closed and
\* the completions are returned; a rejection of the call leaves
\* getCompletions at the await.
CompletionsContinue ==
  /\ codebase.pc = "completing"
  /\ returned[codebase.id].state \in {"returned", "thrown"}
  /\ IF returned[codebase.id].state = "returned"
       THEN /\ SendNotification(DidClose, RunUri(1))
            /\ docOps' = Append(docOps, [op |-> "close", uri |-> RunUri(1)])
            /\ codebase' = [codebase EXCEPT !.pc = "completed", !.id = 0]
       ELSE /\ codebase' = [codebase EXCEPT !.pc = "thrown", !.id = 0]
            /\ UNCHANGED <<stdin, written, docOps>>
  /\ UNCHANGED CodebaseUntouched
  /\ UNCHANGED <<handlers, nextRequestId, pendingRequests, timers, outcome, returned>>

\* textDocument/publishDiagnostics for a document with n diagnostics.
Publish(uri, n) == WithParams(Notification(PublishDiagnostics), uri \o <<Digits[n + 1]>>)

\* The diagnostics a document can have: one error or two.
DiagnosticCounts == {1, 2}

AllPublishes == {Publish(RunUri(f), n) : f \in 1..CodebaseFiles, n \in DiagnosticCounts}

EncodedPublish == [m \in AllPublishes |-> Encode(m)]

\* The documents the client has opened so far.
OpenedUris ==
  {u \in Uris : \E k \in 1..Len(stdin) :
     stdin[k].id = NoId /\ stdin[k].method = DidOpen /\ stdin[k].params = u}

\* The server publishes the diagnostics of a document it was given.
ServerPublish(m) ==
  /\ ~ContinuationDue
  /\ child = "running"
  /\ Len(wire) < MaxChunks
  /\ Cardinality({k \in 1..Len(serverSent) : serverSent[k].method = PublishDiagnostics})
       < MaxServerMsgs
  /\ <<m.params[1]>> \in OpenedUris
  /\ serverSent' = Append(serverSent, m)
  /\ wire' = Append(wire, EncodedPublish[m])
  /\ UNCHANGED helperVars
  /\ UNCHANGED <<impl, process, child, exitEmitted, initialized, messageBuffer,
                 nextRequestId, pendingRequests, timers, outcome, resolvedBy,
                 stdin, written, dispatched, notifLog, handlers, settledAt,
                 resumedAt, uncaught, discards, returned, startPc, shutdownPc,
                 shutdownId, docOps, graph>>

CodebaseNext ==
  \/ Start
  \/ StartContinue
  \/ CodebaseCall
  \/ CodebaseOutline
  \/ \E id \in Ids : QueryContinue(id)
  \/ CodebaseOutlineContinue
  \/ CompletionsCall
  \/ CompletionsContinue
  \/ \E m \in AllReplies : ServerReply(m)
  \/ \E m \in AllPublishes : ServerPublish(m)
  \/ \E k \in 1..MaxChunks : Deliver(k)

CodebaseSpec == CodebaseInit /\ [][CodebaseNext]_vars

\* The publishDiagnostics notifications for a document that the client has
\* received, in order of arrival.
PublishedFor(uri) ==
  LET at == {k \in 1..Len(dispatched) :
               /\ IsEmitted(dispatched[k])
               /\ dispatched[k].method = PublishDiagnostics
               /\ dispatched[k].params # Undefined
               /\ <<dispatched[k].params[1]>> = uri}
  IN  [k \in at |-> DigitVal(dispatched[k].params[2])]

\* The number of diagnostics the server last published for a document.
CurrentDiagnostics(uri) ==
  LET published == PublishedFor(uri) IN
  IF DOMAIN published = {} THEN NotRecorded
  ELSE published[CHOOSE k \in DOMAIN published : \A j \in DOMAIN published : j <= k]

CurrentErrors(uri) ==
  IF CurrentDiagnostics(uri) = NotRecorded THEN 0 ELSE CurrentDiagnostics(uri)

\* C29: the analysis that analyzeCodebase returns holds, for every analyzed
\* file, the diagnostics the server published for it, also those that arrived
\* while the files were being opened, queried and closed, and errorCount
\* counts each file's current diagnostics once.
C29_DiagnosticsRecorded ==
  codebase.pc = "returned" =>
    /\ \A f \in 1..CodebaseFiles :
         codebase.diagnostics[RunUri(f)] = CurrentDiagnostics(RunUri(f))
    /\ codebase.errorCount = CurrentErrors(RunUri(1)) + CurrentErrors(RunUri(2))

\* ------------------------------------------------------------------------
\* The order of a run that completes
\* ------------------------------------------------------------------------
\* The phase the run is in: Idle until start() has settled, Collecting in
\* the loop over the files, Analyzing from the 500 ms wait to the last
\* detector, Done from the cleanup on.
RunPhase(pc) ==
  IF pc = "start" THEN 0
  ELSE IF pc \in {"pause", "outline"} THEN 1
  ELSE IF pc \in {"settle", "references"} THEN 2
  ELSE 3

\* The positions in stdin of the notifications with this method and URI.
NotificationsOf(method, uri) ==
  {k \in 1..Len(stdin) :
     stdin[k].id = NoId /\ stdin[k].method = method /\ stdin[k].params = uri}

\* The positions in stdin of the requests with this method.
RequestsOf(method) ==
  {k \in 1..Len(stdin) : stdin[k].id # NoId /\ stdin[k].method = method}

\* The files of the run, as URIs.
RunFiles == {RunUri(f) : f \in 1..run.files}

\* What a completed run has written: for each file one didOpen and one
\* didClose, the open first and every query on the file in between; the
\* requests of the selected detector, one per collected symbol, after the
\* last documentSymbol request; the shutdown request after everything else.
CompletedInOrder ==
  /\ Cardinality(RunFiles) = run.files
  /\ \A uri \in RunFiles :
       /\ Cardinality(NotificationsOf(DidOpen, uri)) = 1
       /\ Cardinality(NotificationsOf(DidClose, uri)) = 1
       /\ \A o \in NotificationsOf(DidOpen, uri), c \in NotificationsOf(DidClose, uri) :
            /\ o < c
            /\ \A k \in 1..Len(stdin) :
                 (stdin[k].id # NoId /\ stdin[k].params = uri) => (o < k /\ k < c)
  /\ Cardinality(RequestsOf(DocumentSymbols)) = run.files
  /\ Cardinality(RequestsOf(References) \cup RequestsOf(Hover)) =
       IF AsksServer(run.analysis) THEN run.symbols ELSE 0
  /\ RequestsOf(References) \cup RequestsOf(Hover) = RequestsOf(QueryMethod(run.analysis))
  /\ \A r \in RequestsOf(QueryMethod(run.analysis)), y \in RequestsOf(DocumentSymbols) : y < r
  /\ Cardinality(RequestsOf(ShutdownMethod)) = 1
  /\ \A s \in RequestsOf(ShutdownMethod) :
       /\ s = Len(stdin) \/ (s = Len(stdin) - 1 /\ stdin[Len(stdin)].method = ExitMethod)
       /\ shutdownId = stdin[s].id

\* C31: a run never goes back to an earlier phase, and a run that has
\* returned has opened every file once and closed it once, the open before
\* the close and no query on the file after its close, has run its detector
\* once after the collection, and has stopped the session after all of that.
C31_RunInOrder ==
  /\ [][RunPhase(run.pc)' >= RunPhase(run.pc)]_vars
  /\ [](run.pc = "returned" => CompletedInOrder)

\* A run over two files has returned after the server answered every request.
C31_Witness ==
  /\ run.pc = "returned"
  /\ run.files = 2
  /\ run.symbols = 2
  /\ child # "exited"
  /\ stdin[Len(stdin)].method = ExitMethod

\* ------------------------------------------------------------------------
\* Independence of the detectors
\* ------------------------------------------------------------------------
\* The findings lists of the AnalysisResult, in the order of Phase 2.
FindingLists ==
  <<"unusedSymbols", "signatureGroups", "cooccurrenceGroups", "deadParameters",
    "hotspots", "similarTypes">>

\* The names the detectors are selected by, in the same order.
AnalysisNames ==
  <<"unused", "signatures", "cooccurrence", "dead-params", "hotspots", "similar-types">>

\* What detector d alone reports on the index and the answers of project p.
AloneOn(d, p) ==
  LET q == [p EXCEPT !.analysisTypes = {AnalysisNames[d]}]
  IN  CASE d = 1 -> UnusedSymbols(q)
        [] d = 2 -> SignatureGroups(q)
        [] d = 3 -> CooccurrenceGroups(q)
        [] d = 4 -> DeadParameters(q)
        [] d = 5 -> Hotspots(q)
        [] d = 6 -> SimilarTypes(q)

\* C32: no detector changes the index, the file contents or the answers it
\* was given; a detector changes no findings list but its own; and the list
\* of a selected detector is what that detector reports when it is the only
\* one selected.
C32_DetectorsIndependent ==
  /\ [][ /\ project' = project
         /\ \A d \in 1..6 :
              analysisResult'[FindingLists[d]] # analysisResult[FindingLists[d]]
                => analysisResult.phase = d - 1 ]_vars
  /\ [](\A d \in 1..6 :
          analysisResult.phase >= d =>
            analysisResult[FindingLists[d]] =
              IF Selected(project, AnalysisNames[d]) THEN AloneOn(d, project) ELSE <<>>)

\* All six detectors have run on one index, and the five that find something
\* in it have their findings side by side.
C32_Witness ==
  /\ analysisResult.phase = 6
  /\ project.analysisTypes = {"all"}
  /\ \A d \in {1, 2, 3, 5, 6} : analysisResult[FindingLists[d]] # <<>>

\* ------------------------------------------------------------------------
\* Timeouts
\* ------------------------------------------------------------------------
\* The request with this id times out in the step.
TimesOut(id) == outcome[id].state = "pending" /\ outcome'[id].state = "timeout"

\* C33: the step in which a request times out writes nothing to the server;
\* it removes the pending entry of that request and completes it with the
\* timeout error, and leaves every other pending entry, every other
\* request, the id counter and the decode buffer as they were.
C33_TimeoutOnlyLocal ==
  [][\A id \in Ids :
       TimesOut(id) =>
         /\ stdin' = stdin
         /\ written' = written
         /\ pendingRequests' = pendingRequests \ {id}
         /\ id \in pendingRequests
         /\ \A j \in Ids \ {id} : outcome'[j] = outcome[j]
         /\ nextRequestId' = nextRequestId
         /\ messageBuffer' = messageBuffer]_vars

\* A request has timed out while a later one is still pending, and the
\* caller of the first has gone on with the empty answer of the facade.
C33_Witness ==
  \E i, j \in Ids :
    /\ outcome[i].state = "timeout"
    /\ returned[i] = [state |-> "returned", value |-> EmptyList]
    /\ j \in pendingRequests
    /\ j > i

\* ------------------------------------------------------------------------
\* Facade calls of Phase 2 that fail
\* ------------------------------------------------------------------------
\* The requests of the selected analysis, in the order they were written.
PhaseTwoCalls ==
  SelectSeq(stdin, LAMBDA m : m.id # NoId /\ m.method = QueryMethod(run.analysis))

\* The call for the k-th symbol failed: it timed out (also because the
\* process had exited) or was answered with an error.
CallFailed(k) == outcome[PhaseTwoCalls[k].id].state \in {"timeout", "remoteError"}

\* The names of the symbols the findings of the run are about.
NamesFound ==
  IF run.analysis = "signatures"
    THEN UNION {Elements([m \in 1..Len(run.findings[g].functions) |->
                            run.findings[g].functions[m].name]) :
                  g \in 1..Len(run.findings)}
    ELSE {run.findings[k].name : k \in 1..Len(run.findings)}

\* C34: when Phase 2 of a run is over, the facade was called for every
\* collected symbol, also after a call that failed; a symbol whose call
\* failed is in no signature group and in no hotspot finding, while the
\* unused-symbols detector reports it.
C34_FailedCallContributesNothing ==
  (run.pc \in {"shutdown", "returned"} /\ AsksServer(run.analysis)) =>
    /\ Len(PhaseTwoCalls) = run.symbols
    /\ Len(run.answers) = run.symbols
    /\ \A k \in 1..run.symbols :
         CallFailed(k) =>
           IF run.analysis = "unused" THEN RunSymbolNames[k] \in NamesFound
           ELSE RunSymbolNames[k] \notin NamesFound

\* The hover call for the first of two functions failed, the one for the
\* second was answered, and the run has returned without a signature group.
C34_Witness ==
  /\ run.pc = "returned"
  /\ run.analysis = "signatures"
  /\ run.symbols = 2
  /\ CallFailed(1)
  /\ run.answers = <<Null, <<"h">>>>
  /\ run.findings = <<>>

\* ------------------------------------------------------------------------
\* The pairs the similar-types detector compares
\* ------------------------------------------------------------------------
\* The two types have at least half of their property names in common, and
\* at least two of them.
MeetsFloor(t1, t2) ==
  LET inter == Elements(t1.properties) \cap Elements(t2.properties)
      union == Elements(t1.properties) \cup Elements(t2.properties)
  IN  2 * Cardinality(inter) >= Cardinality(union) /\ Cardinality(inter) >= 2

\* C35: once the similar-types detector has run, every two different types
\* it collected that meet the similarity floor and share two or more
\* property names are reported, once, whatever their names are and whichever
\* pairs were compared before.
C35_EveryPairCompared ==
  (analysisResult.phase >= 6 /\ Selected(project, "similar-types")) =>
    LET types == ComparedTypes(project)
    IN  \A i, j \in 1..Len(types) :
          (i < j /\ MeetsFloor(types[i], types[j])) =>
            Cardinality({f \in 1..Len(analysisResult.similarTypes) :
                           analysisResult.similarTypes[f].types = <<types[i], types[j]>>}) = 1

\* ------------------------------------------------------------------------
\* Helper operations that open a document
\* ------------------------------------------------------------------------
\* C36: when analyzeCodebase or getCompletions has ended, by returning or
\* by throwing, no document is open: every didOpen the operation wrote was
\* followed by the didClose for the same document.
C36_HelpersCloseWhatTheyOpen ==
  codebase.pc \in {"returned", "completed", "thrown"} => OpenUris = {}

\* ------------------------------------------------------------------------
\* Requests of the server
\* ------------------------------------------------------------------------
\* C37: the message that completed a request, with a result or an error, is
\* a Response: it has no method.  A message with an id and a method is a
\* request of the server and completes nothing.
C37_OnlyResponsesComplete ==
  \A i \in Ids :
    outcome[i].state \in {"result", "remoteError"} => resolvedBy[i].method = Undefined

\* ------------------------------------------------------------------------
\* The response and the timer of one request
\* ------------------------------------------------------------------------
\* C38: in the client with request timers, the ids with an armed timer are
\* the ids with a pending entry, and these are the requests that have not
\* completed; a request that has completed, with a result, a remote error or
\* a timeout, keeps that completion whatever arrives or fires afterwards.
C38_CompletesOnce ==
  /\ [](impl = "engine" =>
          /\ timers = pendingRequests
          /\ \A i \in Ids : i \in pendingRequests <=> outcome[i].state = "pending")
  /\ [][impl = "engine" =>
          \A i \in Ids :
            outcome[i].state \in {"result", "remoteError", "timeout"}
              => outcome'[i] = outcome[i]]_vars

\* Both orders of the race have happened: the response of a request was
\* read after its timer had fired, and another request was completed by its
\* response while its timer was armed.
C38_Witness ==
  /\ impl = "engine"
  /\ \E i, j \in Ids :
       /\ outcome[i].state = "timeout"
       /\ \E k \in 1..Len(dispatched) :
            dispatched[k].id = i /\ dispatched[k].method = Undefined
       /\ outcome[j].state = "result"
       /\ j \notin timers

\* ------------------------------------------------------------------------
\* shutdown() in every state of the session
\* ------------------------------------------------------------------------
\* C39: once shutdown() has returned, the session holds no process and the
\* child it spawned is not running any more, whether start() had completed,
\* failed or was still waiting for the handshake when shutdown() was called.
C39_ShutdownLeavesNoChild ==
  shutdownPc = "done" => (process = "null" /\ child # "running")

\* ------------------------------------------------------------------------
\* The ways out of analyzeProject
\* ------------------------------------------------------------------------
\* C40: when analyzeProject has ended, by returning its result or by an
\* exception (a failed handshake, a source file that cannot be read), every
\* document it opened is closed and the session is shut down: the client
\* holds no process and the child is not running.
C40_EveryExitCleansUp ==
  run.pc \in {"returned", "aborted"} =>
    (OpenUris = {} /\ process = "null" /\ child # "running")

====
